---- MODULE Spec2Model ----
(***************************************************************************)
(* Price extraction and crawling engine of the wishlist application.       *)
(*                                                                         *)
(* The module models                                                       *)
(*   - the identity store of services/amazon_stealth/identity_manager.py   *)
(*     (usage counters, burn timestamps and saved cookies kept as Redis    *)
(*     keys with a time to live),                                          *)
(*   - the retrying fetcher _make_request of services/price_service.py,    *)
(*   - the batch orchestrator fetch_prices_batch of                        *)
(*     services/price_async.py with its two paths.                         *)
(*                                                                         *)
(* Time is counted in whole hours.  The manager is the one built by        *)
(* _get_identity_manager from extensions.redis_client, i.e. it has a store *)
(* client; the guards "if not self.redis" are therefore never taken.       *)
(***************************************************************************)
EXTENDS Integers, Sequences, FiniteSets, TLC

\* ------------------------------------------------------------------ bounds
\* Size of the identity pool (IDENTITY_PROFILES has 12 entries).
NumIdentities == 2
\* The clock stops at MaxTime hours and advances TickHours at a time.
MaxTime == 36
TickHours == 12
\* Cap on an identity's usage counter in the specification of selection.
MaxUses == 3
\* random.uniform(0, 1) is drawn in steps of 1/Resolution second.
Resolution == 10
\* Number of distinct URLs _make_request is called with.
NumRequestUrls == 2
\* The URLs: NumOther ordinary ones followed by NumAmazon Amazon ones.
NumOther == 6
NumAmazon == 2
\* Number of ordinary URLs in the mixed batch.
BatchOther == 1
\* The cache backend's clock is read in steps of 1/TicksPerHour hour.
TicksPerHour == 4
\* Points the price_history table takes, hours it is watched for and hours
\* that pass between two looks at it.
MaxPoints == 3
MaxHistoryHours == 9
HistoryTickHours == 3
\* The cache is watched for MaxCacheTicks steps of that clock.
MaxCacheTicks == 6
\* Number of URLs the cache is called with directly.
NumCacheUrls == 2

\* ------------------------------------------------- constants of the source
MIN_REQUESTS_BEFORE_ROTATE == 10
MAX_REQUESTS_BEFORE_ROTATE == 20
BURN_DURATION_HOURS == 24
\* redis.expire(key, 86400) on the counter and the cookie key, in hours.
KEY_TTL_HOURS == 24
\* services/price_service.py
MAX_RETRIES == 2
\* services/price_cache.py: CACHE_TTL = 3600 seconds, in hours.
CACHE_TTL_HOURS == 1
\* services/price_async.py
MAX_CONCURRENT_REQUESTS == 5

Identities == 1..NumIdentities
\* Python's None for an identity, and the value of "no call was just made".
None == 0
NoCall == -1

VARIABLES
    now,        \* datetime.now(timezone.utc), in hours
    requests,   \* Redis keys amazon:identity:<id>:requests
    burned,     \* Redis keys amazon:identity:<id>:burned
    cookies,    \* Redis keys amazon:identity:<id>:cookies
    returned,   \* what the get_healthy_identity call of the last step returned
    burnedAt,   \* history: the time of the last mark_burned per identity, -1 if none
    rotated,    \* history: the identity and count of the rotation of the last step
    cache,      \* the response cache: URL -> cached body and its expiry
    mrPc,       \* _make_request: position in the function
    mrUrl,      \* _make_request: its url argument
    mrAttempt,  \* _make_request: the loop variable attempt
    mrGets,     \* history: outcome of every session.get so far, in order
    mrSleeps,   \* history: every time.sleep(wait_time) so far, in 1/Resolution s
    mrResult,   \* _make_request: what it returned
    op,         \* the entry point that is running, "idle" if none
    mode,       \* "stealth", "disabled" (feature flag off) or "no_manager"
    urls,       \* the URLs the entry point was called with
    pc,         \* per URL position: how far its fetch has got
    outcome,    \* history, per position: what the fetch met
    used,       \* history, per position: the identity the stealth attempt used
    taskPrice,  \* per position: what the fetch coroutine returned
    logRows,    \* per position: the extraction-log rows written for it
    results,    \* the result map: URL -> "absent", "None" or "price"
    semaphore,  \* value of asyncio.Semaphore(MAX_CONCURRENT_REQUESTS)
    phase,      \* position in the entry point
    storeDown,  \* the cache backend raises on every get and set
    frac,       \* the part of the time past the full hour, in 1/TicksPerHour h
    putAt,      \* history, per URL: body and time of the last cache.set that worked
    lastGet,    \* history: the get_cached_response call since the last cache_response
    history,    \* the price_history table: per item its points, oldest first
    rph,        \* history: the last call of record_price_history
    items,      \* the item table: per item its link, price, owner, ...
    items0,     \* history: the item table when update_stale_prices was called
    shown,      \* per URL: the price in cents its page shows
    notifications, \* the notification table, oldest first
    stats,      \* update_stale_prices: its stats dictionary
    uspPc,      \* update_stale_prices: position in the function
    uspQueue,   \* update_stale_prices: the items still to be processed
    dbDown,     \* the database of the extraction log refuses every write
    price_text, \* _parse_price: its argument
    parsed,     \* _parse_price: what it returned
    soup,       \* _extract_generic_price_from_soup: the page it is given
    extracted,  \* _extract_generic_price_from_soup: what it returned
    rphPc,      \* per worker: its position in record_price_history
    rphSeen,    \* per worker: its arguments and the points its query returned
    fbPc,       \* _fetch_target_price / _fetch_amazon_price_legacy: position
    fbMarkup,   \* the markup _fetch_with_playwright returned and where it came from
    uspSelected, \* update_stale_prices: the items get_items_needing_update returned
    uspForced,  \* update_stale_prices: its force_all argument
    utcOffset,  \* the server's local time minus UTC, in hours
    unpricedAt, \* history, per item: when a fetch last yielded no price for it, -1 if never
    refresh,    \* refresh_item_price: position, item and what fetch_price returned
    identity,   \* the local variable identity of the caller
    browsers    \* number of open headless browsers

idVars == <<now, requests, burned, cookies, returned, burnedAt, rotated>>
mrVars == <<mrPc, mrUrl, mrAttempt, mrGets, mrSleeps, mrResult>>
bVars == <<op, mode, urls, pc, outcome, used, taskPrice, logRows, results,
           semaphore, phase, identity, browsers>>
cVars == <<storeDown, frac, putAt, lastGet>>
hVars == <<history, rph>>
uVars == <<items, items0, shown, notifications, stats, uspPc, uspQueue>>
fVars == <<dbDown>>
pVars == <<price_text, parsed>>
\* The state of the operations that follow, idle in the specifications above.
eVars == <<soup, extracted>>
rVars == <<rphPc, rphSeen>>
wVars == <<fbPc, fbMarkup>>
sVars == <<uspSelected, uspForced, utcOffset, unpricedAt, refresh>>
zVars == <<eVars, rVars, wVars, sVars>>
xVars == <<cVars, hVars, uVars, fVars, pVars, zVars>>
\* What the actions of the cache / of the price history leave alone.
restC == <<hVars, uVars, fVars, pVars, zVars>>
restH == <<cVars, uVars, fVars, pVars, zVars>>
vars == <<idVars, cache, mrVars, bVars, xVars>>

\* ------------------------------------------------------------ Redis keys
\* A key is a value with an expiry time; val = 0 stands for a missing key
\* (GET returns nil).
Absent == [val |-> 0, exp |-> 0]

\* GET: an expired key is gone.
RedisGet(store, id) == IF store[id].exp > now THEN store[id].val ELSE 0

\* Keys whose time to live has elapsed at time t are removed by the store.
Expire(store, t) == [id \in Identities |-> IF store[id].exp > t THEN store[id] ELSE Absent]

\* -------------------------------------------------------- IdentityManager
get_request_count(id) == RedisGet(requests, id)

\* The timestamp written by mark_burned is read back unchanged
\* (isoformat / fromisoformat of an aware datetime).
is_burned_never(id) == FALSE
is_burned(id) ==
    LET value == RedisGet(burned, id)
    IN  IF value = 0 THEN FALSE ELSE now < value

Healthy == {id \in Identities : ~is_burned(id)}

MinCount(S) == CHOOSE c \in {get_request_count(i) : i \in S} :
                   \A j \in S : c <= get_request_count(j)

\* The set random.choice draws from; {None} when every identity is burned.
get_healthy_identity_any ==
    IF Healthy = {} THEN Identities
    ELSE {i \in Healthy : get_request_count(i) <= MinCount(Healthy) + 2}

get_healthy_identity_unsorted == IF Healthy = {} THEN {None} ELSE Healthy

get_healthy_identity ==
    IF Healthy = {} THEN {None}
    ELSE {i \in Healthy : get_request_count(i) <= MinCount(Healthy) + 2}

\* threshold = random.randint(MIN, MAX); rotate when count >= threshold.
ShouldRotateStrict(count, threshold) == count > threshold
ShouldRotate(count, threshold) == count >= threshold

\* _reset_identity: delete the counter key and the cookie key.
reset_requests(id) == [requests EXCEPT ![id] = Absent]
reset_cookies(cks, id) == [cks EXCEPT ![id] = Absent]

burn_until_half(t) == t + (BURN_DURATION_HOURS \div 2)
burn_until(t) == t + BURN_DURATION_HOURS

NoRotation == [id |-> None, count |-> 0]

\* mark_success on a store whose cookie keys are cks (the caller may have
\* saved cookies just before).
mark_success_on(cks, id) ==
    \E threshold \in MIN_REQUESTS_BEFORE_ROTATE..MAX_REQUESTS_BEFORE_ROTATE :
        LET count == get_request_count(id) + 1
        IN  IF ShouldRotate(count, threshold)
            THEN /\ requests' = reset_requests(id)
                 /\ cookies' = reset_cookies(cks, id)
                 /\ rotated' = [id |-> id, count |-> count]
            ELSE /\ requests' = [requests EXCEPT
                                   ![id] = [val |-> count, exp |-> now + KEY_TTL_HOURS]]
                 /\ cookies' = cks
                 /\ rotated' = NoRotation

mark_success(id) == mark_success_on(cookies, id)

mark_burned(id) ==
    /\ burned' = [burned EXCEPT ![id] = [val |-> burn_until(now),
                                         exp |-> now + BURN_DURATION_HOURS]]
    /\ burnedAt' = [burnedAt EXCEPT ![id] = now]

\* The cookie keys after save_cookies(id, ...).
saved_cookies(id) ==
    [cookies EXCEPT ![id] = [val |-> 1, exp |-> now + KEY_TTL_HOURS]]

save_cookies(id) == cookies' = saved_cookies(id)

\* ------------------------------------------------- actions on the store
GetHealthyIdentity ==
    /\ \E r \in get_healthy_identity : returned' = r
    /\ rotated' = NoRotation
    /\ UNCHANGED <<now, requests, burned, cookies, burnedAt, cache, mrVars, xVars, bVars>>

MarkSuccess(id) ==
    /\ mark_success(id)
    /\ returned' = NoCall
    /\ UNCHANGED <<now, burned, burnedAt, cache, mrVars, xVars, bVars>>

MarkBurned(id) ==
    /\ mark_burned(id)
    /\ returned' = NoCall
    /\ rotated' = NoRotation
    /\ UNCHANGED <<now, requests, cookies, cache, mrVars, xVars, bVars>>

SaveCookies(id) ==
    /\ save_cookies(id)
    /\ returned' = NoCall
    /\ rotated' = NoRotation
    /\ UNCHANGED <<now, requests, burned, burnedAt, cache, mrVars, xVars, bVars>>

Tick(d) ==
    /\ now + d <= MaxTime
    /\ now' = now + d
    /\ requests' = Expire(requests, now + d)
    /\ burned' = Expire(burned, now + d)
    /\ cookies' = Expire(cookies, now + d)
    /\ returned' = NoCall
    /\ rotated' = NoRotation
    /\ UNCHANGED <<burnedAt, cache, mrVars, xVars, bVars>>

InitStore ==
    /\ now = 0
    /\ requests = [id \in Identities |-> Absent]
    /\ burned = [id \in Identities |-> Absent]
    /\ cookies = [id \in Identities |-> Absent]
    /\ returned = NoCall
    /\ burnedAt = [id \in Identities |-> -1]
    /\ rotated = NoRotation

\* ------------------------------------------------------- price_cache
OtherUrls == 1..NumOther
AmazonUrls == (NumOther + 1)..(NumOther + NumAmazon)
Urls == OtherUrls \cup AmazonUrls
RequestUrls == 1..NumRequestUrls

\* _is_amazon_url: the domain of the URL is an Amazon one.
is_amazon_url(url) == url \in AmazonUrls

\* A response text: a page a price can be extracted from, a page without
\* one, or the empty string.
Bodies == {"priced", "unpriced"}
CacheAbsent == [val |-> "", exp |-> 0]

\* The time the cache backend expires its keys by, in 1/TicksPerHour hour.
CacheTime == now * TicksPerHour + frac
CACHE_TTL_doubled == 2 * CACHE_TTL_HOURS * TicksPerHour
CACHE_TTL == CACHE_TTL_HOURS * TicksPerHour

\* cache.get(key): the stored content, "" (None) when the key is missing
\* or expired.
cache_get(url) ==
    IF cache[url].exp > CacheTime THEN cache[url].val ELSE ""

\* Returns the cached text, "" (None) on a miss; an exception of the
\* backend is caught and None returned.
get_cached_response_unguarded(url) ==
    IF storeDown THEN "raised" ELSE cache_get(url)

get_cached_response(url) ==
    IF storeDown THEN "" ELSE cache_get(url)

\* cache.set(key, content, timeout=CACHE_TTL); nothing for empty content; an
\* exception of the backend is caught.
cache_response(url, content) ==
    IF content = "" \/ storeDown THEN cache
    ELSE [cache EXCEPT ![url] = [val |-> content, exp |-> CacheTime + CACHE_TTL]]

\* ------------------------------------------------------ _make_request
\* What one session.get(...) followed by raise_for_status() can do: raise a
\* requests.RequestException (timeout, connection error, HTTP error status),
\* raise something else, or return a response with the given text.
GetOutcomes == {"RequestException", "Exception", ""} \cup Bodies

Pending == [kind |-> "pending", text |-> "", get |-> 0]

\* for attempt in range(retries + 1): ... if attempt < retries: sleep and retry
CanRetryOnce(attempt, retries) == attempt < retries - 1
CanRetry(attempt, retries) == attempt < retries

\* wait_time = (attempt + 1) * 2 + random.uniform(0, 1), in 1/Resolution s
wait_time_flat(attempt, jitter) == 2 * Resolution + jitter
wait_time(attempt, jitter) == (attempt + 1) * 2 * Resolution + jitter

\* A caller invokes _make_request(url) with the default retries.
MrCall(url) ==
    /\ mrPc \in {"idle", "done"}
    /\ mrPc' = "start"
    /\ mrUrl' = url
    /\ mrAttempt' = 0
    /\ mrGets' = <<>>
    /\ mrSleeps' = <<>>
    /\ mrResult' = Pending
    /\ UNCHANGED <<idVars, cache, bVars, xVars>>

\* Lines 91-99: the cache lookup.
MrCacheLookup ==
    /\ mrPc = "start"
    /\ LET cached_text == get_cached_response(mrUrl)
       IN  IF cached_text # ""
           THEN /\ mrResult' = [kind |-> "CachedResponse", text |-> cached_text, get |-> 0]
                /\ mrPc' = "done"
           ELSE /\ mrPc' = "get"
                /\ UNCHANGED mrResult
    /\ UNCHANGED <<idVars, cache, bVars, xVars, mrUrl, mrAttempt, mrGets, mrSleeps>>

\* Lines 101-121: one iteration of the retry loop.
MrAttempt(got, jitter) ==
    /\ mrPc = "get"
    /\ mrGets' = Append(mrGets, got)
    /\ IF got = "RequestException"
       THEN IF CanRetry(mrAttempt, MAX_RETRIES)
            THEN /\ mrSleeps' = Append(mrSleeps, wait_time(mrAttempt, jitter))
                 /\ mrAttempt' = mrAttempt + 1
                 /\ UNCHANGED <<mrPc, mrResult, cache>>
            ELSE /\ mrResult' = [kind |-> "None", text |-> "", get |-> 0]
                 /\ mrPc' = "done"
                 /\ UNCHANGED <<mrSleeps, mrAttempt, cache>>
       ELSE IF got = "Exception"
       THEN /\ mrResult' = [kind |-> "raised", text |-> "", get |-> 0]
            /\ mrPc' = "done"
            /\ UNCHANGED <<mrSleeps, mrAttempt, cache>>
       ELSE /\ cache' = cache_response(mrUrl, got)
            /\ mrResult' = [kind |-> "Response", text |-> got,
                            get |-> Len(mrGets) + 1]
            /\ mrPc' = "done"
            /\ UNCHANGED <<mrSleeps, mrAttempt>>
    /\ UNCHANGED <<idVars, bVars, xVars, mrUrl>>

InitRequest ==
    /\ mrPc = "idle"
    /\ mrUrl = 1
    /\ mrAttempt = 0
    /\ mrGets = <<>>
    /\ mrSleeps = <<>>
    /\ mrResult = Pending

InitCache == cache = [u \in Urls |-> CacheAbsent]

\* _fetch_target_price(url) / _fetch_amazon_price_legacy(url): the call of
\* _make_request they start with.
FbStart(url) ==
    /\ fbPc \in {"idle", "done"}
    /\ mrPc \in {"idle", "done"}
    /\ fbPc' = "request"
    /\ fbMarkup' = [source |-> "none", text |-> ""]
    /\ mrPc' = "start"
    /\ mrUrl' = url
    /\ mrAttempt' = 0
    /\ mrGets' = <<>>
    /\ mrSleeps' = <<>>
    /\ mrResult' = Pending
    /\ UNCHANGED <<idVars, cache, bVars, cVars, hVars, uVars, fVars, pVars, eVars, rVars, sVars>>

\* The response is a page the extractor finds a price on, or (legacy
\* Amazon) there is no response: the function returns without a fallback.
FbReturn ==
    /\ fbPc = "request" /\ mrPc = "done"
    /\ mrResult.kind \in {"None", "raised"} \/ mrResult.text = "priced"
    /\ fbPc' = "done"
    /\ UNCHANGED <<idVars, cache, mrVars, bVars, cVars, hVars, uVars, fVars, pVars, eVars,
                   rVars, sVars, fbMarkup>>

\* The response is a CAPTCHA / blocked page or has no price.
falls_back == mrResult.kind \in {"Response", "CachedResponse"} /\ mrResult.text = "unpriced"

\* _fetch_with_playwright, lines 219-222: the cache lookup hits.
FbFromCache ==
    /\ fbPc = "request" /\ mrPc = "done"
    /\ falls_back
    /\ get_cached_response(mrUrl) # ""
    /\ fbMarkup' = [source |-> "cache", text |-> get_cached_response(mrUrl)]
    /\ fbPc' = "done"
    /\ UNCHANGED <<idVars, cache, mrVars, bVars, cVars, hVars, uVars, fVars, pVars, eVars,
                   rVars, sVars>>

\* _fetch_with_playwright, lines 224-256: the page is rendered by a
\* headless browser and its content cached; "" when the render failed.
FbRender(content) ==
    /\ fbPc = "request" /\ mrPc = "done"
    /\ falls_back
    /\ get_cached_response(mrUrl) = ""
    /\ cache' = cache_response(mrUrl, content)
    /\ fbMarkup' = [source |-> "render", text |-> content]
    /\ fbPc' = "done"
    /\ UNCHANGED <<idVars, mrVars, bVars, cVars, hVars, uVars, fVars, pVars, eVars, rVars, sVars>>

\* A working cache backend, a full hour.
\* ----------------------------------------------------- _parse_price
\* A text is a sequence of characters.  A number is mant / 10^exp; the
\* comparisons of the code are made exactly on it.
MaxTextLen == 3
Alphabet == {"5", "-", ".", ",", " ", "$"}
DigitChars == <<"0", "1", "2", "3", "4", "5", "6", "7", "8", "9">>
IsDigit(c) == \E i \in 1..10 : DigitChars[i] = c

NoneFloat == [none |-> TRUE, mant |-> 0, exp |-> 0]
Float(m, e) == [none |-> FALSE, mant |-> m, exp |-> e]
NumberInput(n) == [kind |-> "number", n |-> n, text |-> <<>>]
TextInput(t) == [kind |-> "text", n |-> 0, text |-> t]
NotCalled == [none |-> TRUE, mant |-> -1, exp |-> 0]

\* result < 0 or result > 1000000
MAX_PRICE == 1000000
insane(v) ==
    LET RECURSIVE Pow10(_)
        Pow10(e) == IF e = 0 THEN 1 ELSE 10 * Pow10(e - 1)
    IN  v.mant < 0 \/ v.mant > MAX_PRICE * Pow10(v.exp)

count(t, c) == Cardinality({i \in 1..Len(t) : t[i] = c})
rfind(t, c) ==
    IF count(t, c) = 0 THEN -1
    ELSE CHOOSE i \in 1..Len(t) : t[i] = c /\ \A j \in (i + 1)..Len(t) : t[j] # c

\* float(cleaned) of a text of digits, dots and blanks; NoneFloat stands
\* for ValueError.
float(t) ==
    LET DigitVal(c) == (CHOOSE i \in 1..10 : DigitChars[i] = c) - 1
        RECURSIVE to_int(_)
        to_int(ds) ==
            IF ds = <<>> THEN 0
            ELSE 10 * to_int(SubSeq(ds, 1, Len(ds) - 1)) + DigitVal(ds[Len(ds)])
    IN  IF /\ \A i \in 1..Len(t) : IsDigit(t[i]) \/ t[i] = "."
           /\ count(t, ".") <= 1
           /\ \E i \in 1..Len(t) : IsDigit(t[i])
        THEN Float(to_int(SelectSeq(t, IsDigit)),
                   IF count(t, ".") = 0 THEN 0 ELSE Len(t) - rfind(t, "."))
        ELSE NoneFloat

\* The body of _parse_price for a text that is not empty.
parse_text(raw) ==
    LET IsSpace(c) == c = " "
        RECURSIVE lstrip(_)
        lstrip(t) == IF t # <<>> /\ IsSpace(Head(t)) THEN lstrip(Tail(t)) ELSE t
        RECURSIVE rstrip(_)
        rstrip(t) ==
            IF t # <<>> /\ IsSpace(t[Len(t)])
            THEN rstrip(SubSeq(t, 1, Len(t) - 1)) ELSE t
        strip(t) == rstrip(lstrip(t))
        lower(c) == CASE c = "T" -> "t" [] c = "O" -> "o" [] OTHER -> c
        contains(t, pat) ==
            \E i \in 1..(Len(t) - Len(pat) + 1) : SubSeq(t, i, i + Len(pat) - 1) = pat
        \* ' - ' in price_text or ' to ' in price_text.lower()
        is_range(t) ==
            \/ contains(t, <<" ", "-", " ">>)
            \/ contains([i \in 1..Len(t) |-> lower(t[i])], <<" ", "t", "o", " ">>)
        \* re.split(r'\s*[-]\s*|\s+to\s+', text, flags=re.IGNORECASE)[0]:
        \* the text before the leftmost match.
        match_at(t, i) ==
            \/ \E j \in i..Len(t) :
                  /\ t[j] = "-"
                  /\ \A m \in i..(j - 1) : IsSpace(t[m])
            \/ \E j \in (i + 1)..(Len(t) - 2) :
                  /\ \A m \in i..(j - 1) : IsSpace(t[m])
                  /\ lower(t[j]) = "t" /\ lower(t[j + 1]) = "o"
                  /\ IsSpace(t[j + 2])
        first_part(t) ==
            LET starts == {i \in 1..Len(t) : match_at(t, i)}
            IN  IF starts = {} THEN t
                ELSE SubSeq(t, 1, (CHOOSE i \in starts : \A j \in starts : i <= j) - 1)
        \* re.sub(r'[^\d.,\s]', '', text)
        kept(c) == IsDigit(c) \/ c = "." \/ c = "," \/ IsSpace(c)
        not_comma(c) == c # ","
        not_dot(c) == c # "."
        \* cleaned.split()[0] of a stripped, non-empty text
        RECURSIVE first_token(_)
        first_token(t) ==
            IF t = <<>> \/ IsSpace(Head(t)) THEN <<>>
            ELSE <<Head(t)>> \o first_token(Tail(t))
        comma_to_dot(t) == [i \in 1..Len(t) |-> IF t[i] = "," THEN "." ELSE t[i]]
        \* The if / elif on the decimal separators.
        separators(t) ==
            IF count(t, ",") > 0 /\ count(t, ".") > 0
            THEN IF rfind(t, ",") > rfind(t, ".")
                 THEN comma_to_dot(SelectSeq(t, not_dot))
                 ELSE SelectSeq(t, not_comma)
            ELSE IF count(t, ",") > 0
            THEN IF count(t, ",") = 1 /\ Len(t) - rfind(t, ",") <= 2
                 THEN comma_to_dot(t)
                 ELSE SelectSeq(t, not_comma)
            ELSE t
        t0 == strip(raw)
        t1 == IF is_range(t0) THEN first_part(t0) ELSE t0
        c0 == strip(SelectSeq(t1, kept))
        c1 == IF contains(c0, <<" ", " ">>) THEN first_token(c0) ELSE c0
        result == float(separators(c1))
    IN  IF c1 = <<>> THEN NoneFloat
        ELSE IF result.none THEN NoneFloat
        ELSE IF insane(result) THEN NoneFloat
        ELSE result

\* _parse_price(price_text)
parse_price(input) ==
    IF input.kind = "number"
    THEN IF input.n = 0 THEN NoneFloat ELSE Float(input.n, 0)
    ELSE IF input.text = <<>> THEN NoneFloat ELSE parse_text(input.text)

\* The texts of the unit tests and of the callers.
SampleTexts ==
    { <<"$", "1", "9", ".", "9", "9">>,
      <<"$", "1", ",", "2", "3", "4", ".", "5", "6">>,
      <<"1", ".", "2", "3", "4", ",", "5", "6">>,
      <<"1", "9", ",", "9", "9">>,
      <<"1", ",", "2", "3", "4">>,
      <<"U", "S", "D", " ", "1", "9", ".", "9", "9">>,
      <<"n", "o", "t", " ", "a", " ", "p", "r", "i", "c", "e">>,
      <<"1", "0", " ", "-", " ", "2", "0">>,
      <<"1", "0", " ", "T", "o", " ", "2", "0">>,
      <<"5", " ", " ", "6">>,
      <<"1", "0", "0", "0", "0", "0", "0">>,
      <<"1", "0", "0", "0", "0", "0", "0", ".", "0", "1">>,
      <<"1", "0", "0", "0", "0", "0", "1">>,
      <<"2", "0", "0", "0", "0", "0", "0">>,
      <<"-", "5">>,
      <<"-", "0", ".", "5">> }
SampleNumbers == {-5, -1, 0, 1, 5, MAX_PRICE, MAX_PRICE + 1, 2 * MAX_PRICE}
\* The samples and every text of up to MaxTextLen characters.
PriceInputs ==
    LET RECURSIVE Texts(_)
        Texts(n) ==
            IF n = 0 THEN {<<>>}
            ELSE Texts(n - 1)
                    \cup {Append(t, c) : t \in {u \in Texts(n - 1) : Len(u) = n - 1},
                                         c \in Alphabet}
    IN  {NumberInput(n) : n \in SampleNumbers}
            \cup {TextInput(t) : t \in SampleTexts \cup Texts(MaxTextLen)}

InitNoParse == price_text = TextInput(<<>>) /\ parsed = NotCalled

ParsePrice ==
    /\ parsed = NotCalled
    /\ parsed' = parse_price(price_text)
    /\ UNCHANGED <<idVars, cache, mrVars, bVars, cVars, hVars, uVars, fVars, zVars, price_text>>

\* The next call, with any argument.
ParseNext ==
    /\ parsed # NotCalled
    /\ price_text' \in PriceInputs
    /\ parsed' = NotCalled
    /\ UNCHANGED <<idVars, cache, mrVars, bVars, cVars, hVars, uVars, fVars, zVars>>

\* ---------------------------------- _extract_generic_price_from_soup
\* A page is what the strategies look at: the content of the first price
\* meta tag, the price of the first JSON-LD block, the content of the
\* itemprop="price" element, and the texts of the elements that match the
\* price classes, in document order.  <<>> stands for a missing element.
MaxCssElements == 2
Soups ==
    LET Candidates ==
            { <<>>, <<"0">>, <<"5">>, <<"-", "5">>, <<"5", "0", "0", "0", "0", "0">>,
              <<"s", "o", "l", "d">> }
    IN  [meta : Candidates, json_ld : Candidates, microdata : Candidates,
         css : UNION {[1..n -> Candidates] : n \in 0..MaxCssElements}]

\* price is not None and price > 0 (also written: price and price > 0)
positive(v) == ~v.none /\ v.mant > 0
\* price < 100000, the sanity check of strategy 4
SANE_PRICE == 100000
below_sane(v) ==
    LET RECURSIVE Pow10(_)
        Pow10(e) == IF e = 0 THEN 1 ELSE 10 * Pow10(e - 1)
    IN  v.mant < SANE_PRICE * Pow10(v.exp)

extract_generic_price(page) ==
    LET \* Strategy 4: the first element of the price classes with a sane price.
        RECURSIVE css_price(_)
        css_price(elements) ==
            IF elements = <<>> THEN NoneFloat
            ELSE LET price == parse_price(TextInput(Head(elements)))
                 IN  IF positive(price) /\ below_sane(price) THEN price
                     ELSE css_price(Tail(elements))
        meta == parse_price(TextInput(page.meta))
        json_ld == parse_price(TextInput(page.json_ld))
        microdata == parse_price(TextInput(page.microdata))
    IN  IF page.meta # <<>> /\ positive(meta) THEN meta
        ELSE IF positive(json_ld) THEN json_ld
        ELSE IF positive(microdata) THEN microdata
        ELSE css_price(page.css)

\* Nothing has been selected or refreshed yet.
NoRefresh == [pc |-> "idle", item |-> 0, new |-> "None"]

InitSelection ==
    /\ uspSelected = <<>>
    /\ uspForced = FALSE
    /\ unpricedAt = [i \in {1, 2} |-> -1]
    /\ refresh = NoRefresh

InitRest ==
    /\ InitSelection
    /\ utcOffset = 0
    /\ soup = [meta |-> <<>>, json_ld |-> <<>>, microdata |-> <<>>, css |-> <<>>]
    /\ extracted = NotCalled
    /\ rphPc = [w \in {1, 2} |-> "idle"]
    /\ rphSeen = [w \in {1, 2} |-> [item |-> 0, cents |-> 0, points |-> <<>>]]
    /\ fbPc = "idle"
    /\ fbMarkup = [source |-> "none", text |-> ""]

ExtractGeneric ==
    /\ extracted = NotCalled
    /\ extracted' = extract_generic_price(soup)
    /\ UNCHANGED <<idVars, cache, mrVars, bVars, cVars, hVars, uVars, fVars, pVars, rVars, wVars, sVars,
                   soup>>

\* ------------------------------------------------------ price_history
\* Two items: item_id 1 and 2.
Items == {1, 2}

RECURSIVE TotalPoints(_, _)
TotalPoints(h, S) ==
    IF S = {} THEN 0
    ELSE LET i == CHOOSE x \in S : TRUE
         IN  Len(h[i]) + TotalPoints(h, S \ {i})

\* A price argument: None, or an amount in cents.
NonePrice == [null |-> TRUE, cents |-> 0]
Cents(c) == [null |-> FALSE, cents |-> c]
HistoryPrices == {NonePrice} \cup {Cents(c) : c \in {-1, 0, 1, 3}}

NoRecordCall == [item |-> 0, price |-> NonePrice, before |-> <<>>, at |-> -1, ret |-> FALSE]

Abs(x) == IF x < 0 THEN -x ELSE x

\* PriceHistory.query.filter_by(item_id).order_by(recorded_at.desc()).first()
\* Of the points written within the same hour the one written last has the
\* latest recorded_at.
last_record(points) ==
    LET k == CHOOSE i \in 1..Len(points) :
                \A j \in 1..Len(points) :
                    \/ points[j].at < points[i].at
                    \/ points[j].at = points[i].at /\ j <= i
    IN  points[k]

\* Lines 36-52: should_record.  price_diff > 0.01 is more than one cent,
\* time_diff.total_seconds() > 6 * 3600 is more than six hours.
should_record_no_heartbeat(points, cents, t) ==
    \/ points = <<>>
    \/ Abs(last_record(points).price - cents) > 1

should_record(points, cents, t) ==
    \/ points = <<>>
    \/ Abs(last_record(points).price - cents) > 1
    \/ t - last_record(points).at > 6

\* record_price_history(item_id, price, source) with a database that
\* answers: what it does to the table.
record_price_history(item, price) ==
    LET points == history[item]
        rejected == price.null \/ price.cents < 0
        record == ~rejected /\ should_record(points, price.cents, now)
    IN  /\ history' = IF record
                      THEN [history EXCEPT ![item] =
                              Append(@, [price |-> price.cents, at |-> now])]
                      ELSE history
        /\ rph' = [item |-> item, price |-> price, before |-> points, at |-> now,
                   ret |-> record]

\* A call of record_price_history from anywhere.
RecordPriceHistory(item, price) ==
    /\ TotalPoints(history, Items) < MaxPoints
    /\ record_price_history(item, price)
    /\ UNCHANGED <<idVars, cache, mrVars, bVars, restH>>

\* Two workers (the scheduled update and a request that refreshes an item)
\* call record_price_history at the same time.  The query of lines 32-34
\* and the insert of lines 54-61 are two statements of one transaction.
Workers == {1, 2}

RphQuery(w, item, price) ==
    /\ rphPc[w] = "idle"
    /\ ~price.null /\ price.cents >= 0
    /\ TotalPoints(history, Items) + Cardinality({v \in Workers : rphPc[v] = "queried"})
          < MaxPoints
    /\ rphPc' = [rphPc EXCEPT ![w] = "queried"]
    /\ rphSeen' = [rphSeen EXCEPT
                     ![w] = [item |-> item, cents |-> price.cents, points |-> history[item]]]
    /\ UNCHANGED <<idVars, cache, mrVars, bVars, cVars, uVars, fVars, pVars, eVars, wVars, sVars,
                   hVars>>

\* The rest of the call: should_record is decided on what the query
\* returned, then the point is added and committed.
RphCommit(w) ==
    /\ rphPc[w] = "queried"
    /\ history' = IF should_record(rphSeen[w].points, rphSeen[w].cents, now)
                  THEN [history EXCEPT ![rphSeen[w].item] =
                          Append(@, [price |-> rphSeen[w].cents, at |-> now])]
                  ELSE history
    /\ rphPc' = [rphPc EXCEPT ![w] = "idle"]
    /\ UNCHANGED <<idVars, cache, mrVars, bVars, cVars, uVars, fVars, pVars, eVars, wVars, sVars, rph,
                   rphSeen>>

\* HistoryTickHours hours pass.
HistoryTick == now < MaxHistoryHours /\ Tick(HistoryTickHours)

\* ------------------------------------------------------------ items
Users == {1, 2}
NoUser == 0
Statuses == {"Available", "Claimed", "Purchased"}

\* An item nobody has touched: owned by user 1, no price yet.
PlainItem(i) ==
    [link |-> 1, price |-> NonePrice, user_id |-> 1, last_updated_by_id |-> NoUser,
     status |-> "Available", price_updated_at |-> -1]

ZeroStats == [items_processed |-> 0, prices_updated |-> 0, price_drops |-> 0, errors |-> 0]

InitUsp ==
    /\ notifications = <<>>
    /\ stats = ZeroStats
    /\ uspPc = "idle"
    /\ uspQueue = <<>>

NoPut == [body |-> "", at |-> -1]
NoGet == [url |-> 0, text |-> "", at |-> -1, down |-> FALSE]

InitExtra ==
    /\ storeDown = FALSE
    /\ frac = 0
    /\ putAt = [u \in Urls |-> NoPut]
    /\ lastGet = NoGet
    /\ history = [i \in Items |-> <<>>]
    /\ rph = NoRecordCall
    /\ items = [i \in Items |-> PlainItem(i)]
    /\ items0 = items
    /\ shown = [u \in Urls |-> 0]
    /\ InitUsp
    /\ dbDown = FALSE
    /\ InitNoParse
    /\ InitRest

\* ------------------------------------------- price_async / entry points
Modes == {"stealth", "disabled", "no_manager"}

Positions == DOMAIN urls

\* The mixed batch: BatchOther ordinary URLs and every Amazon URL, each once
\* (update_stale_prices passes the keys of a dictionary).
BatchInput ==
    [k \in 1..(BatchOther + NumAmazon) |->
        IF k <= BatchOther THEN k ELSE NumOther + (k - BatchOther)]

\* A batch of ordinary URLs only, more of them than the semaphore admits.
PoolInput == [k \in 1..NumOther |-> k]

\* _parse_content: the extractors find a price in the page or do not.
parse_content(text) == IF text = "priced" THEN "price" ELSE "None"

\* What session.get / response.text() can do in _fetch_price_async_standard:
\* a status other than 200, an exception, or a 200 with the given text.
StandardOutcomes == {"http_error", "exception", "empty"} \cup Bodies
Text(oc) == IF oc \in Bodies THEN oc ELSE ""

\* price_metrics.log_extraction_attempt: the row is added and committed; a
\* failing database is caught, logged and rolled back.
log_extraction_attempt(rows, row) == IF dbDown THEN rows ELSE Append(rows, row)

\* The row log_extraction_attempt writes in the finally block.
StandardRow(oc) ==
    [success |-> parse_content(Text(oc)) = "price",
     method |-> "async_aiohttp",
     error |-> IF oc = "http_error" THEN "HTTP"
               ELSE IF oc = "exception" THEN "exception" ELSE ""]

\* async with semaphore: a task enters only while the value is positive.
CanAcquireAlways(value) == TRUE
CanAcquire(value) == value > 0

IsCurrentUnordered(k) ==
    /\ k \in Positions
    /\ is_amazon_url(urls[k])
    /\ pc[k] # "done"

\* for url in amazon_urls: the URL whose turn it is.
IsCurrent(k) ==
    /\ k \in Positions
    /\ is_amazon_url(urls[k])
    /\ pc[k] # "done"
    /\ \A j \in Positions : (j < k /\ is_amazon_url(urls[j])) => pc[j] = "done"

\* The stealth route is taken for the URL at position k.
StealthTurn(k) ==
    /\ k \in Positions
    /\ is_amazon_url(urls[k])
    /\ \/ op = "fetch_prices_batch" /\ phase = "amazon" /\ mode = "stealth" /\ IsCurrent(k)
       \/ op = "_fetch_price_async" /\ phase = "single" /\ mode = "stealth"
       \/ op = "_fetch_amazon_price" /\ phase = "single" /\ mode # "no_manager"

\* The URL at position k of the batch goes down the ordinary path after the
\* gather: stealth is disabled or there is no manager.
DegradedTurn(k) ==
    /\ op = "fetch_prices_batch" /\ phase = "amazon" /\ mode # "stealth"
    /\ IsCurrent(k)

\* _fetch_price_async calls _fetch_price_async_standard directly.
SingleStandardTurn(k) ==
    /\ op = "_fetch_price_async" /\ phase = "single"
    /\ k \in Positions
    /\ ~(is_amazon_url(urls[k]) /\ mode = "stealth")

\* The call of an entry point, as far as the variables of the entry
\* points go.
begin(fn, input) ==
    /\ op = "idle"
    /\ op' = fn
    /\ urls' = input
    /\ pc' = [k \in DOMAIN input |-> "pending"]
    /\ outcome' = [k \in DOMAIN input |-> ""]
    /\ used' = [k \in DOMAIN input |-> None]
    /\ taskPrice' = [k \in DOMAIN input |-> "pending"]
    /\ logRows' = [k \in DOMAIN input |-> <<>>]
    /\ semaphore' = IF fn = "fetch_prices_batch" THEN MAX_CONCURRENT_REQUESTS ELSE 0
    /\ phase' = IF fn = "fetch_prices_batch" THEN "standard" ELSE "single"
    /\ UNCHANGED <<mode, results, identity, browsers>>

Start(fn, input) ==
    /\ begin(fn, input)
    /\ UNCHANGED <<idVars, cache, mrVars, xVars>>

StartBatch == Start("fetch_prices_batch", BatchInput)
StartPool == Start("fetch_prices_batch", PoolInput)
StartFetchPriceAsync(url) == Start("_fetch_price_async", <<url>>)
StartFetchAmazonPrice(url) == is_amazon_url(url) /\ Start("_fetch_amazon_price", <<url>>)

\* async with semaphore: ... await asyncio.sleep(jitter)
Acquire(k) ==
    /\ pc[k] = "pending"
    /\ CanAcquire(semaphore)
    /\ semaphore' = semaphore - 1
    /\ pc' = [pc EXCEPT ![k] = "jitter"]
    /\ UNCHANGED <<idVars, cache, mrVars, xVars, op, mode, urls, outcome, used, taskPrice,
                   logRows, results, phase, identity, browsers>>

\* _fetch_price_async_standard up to the GET: a cache hit returns the parsed
\* cached text at once, a miss sends the request.  holds: the caller is
\* inside the semaphore; direct: the caller stores the price in results.
BeginStandard(k, holds, direct) ==
    LET url == urls[k]
        cached_text == get_cached_response(url)
        price == parse_content(cached_text)
    IN  /\ IF cached_text # ""
           THEN /\ pc' = [pc EXCEPT ![k] = "done"]
                /\ outcome' = [outcome EXCEPT ![k] = "cache_hit"]
                /\ taskPrice' = [taskPrice EXCEPT ![k] = price]
                /\ semaphore' = IF holds THEN semaphore + 1 ELSE semaphore
                /\ results' = IF direct THEN [results EXCEPT ![url] = price] ELSE results
           ELSE /\ pc' = [pc EXCEPT ![k] = "fetching"]
                /\ UNCHANGED <<outcome, taskPrice, semaphore, results>>
        /\ UNCHANGED <<idVars, cache, mrVars, xVars, op, mode, urls, used, logRows, phase,
                       identity, browsers>>

\* _fetch_price_async_standard from the response on, the finally block with
\* its log row included.
CompleteStandard(k, oc, holds, direct) ==
    LET url == urls[k]
        price == parse_content(Text(oc))
    IN  /\ pc[k] = "fetching"
        /\ pc' = [pc EXCEPT ![k] = "done"]
        /\ outcome' = [outcome EXCEPT ![k] = oc]
        /\ cache' = cache_response(url, Text(oc))
        /\ taskPrice' = [taskPrice EXCEPT ![k] = price]
        /\ logRows' = [logRows EXCEPT ![k] = log_extraction_attempt(@, StandardRow(oc))]
        /\ semaphore' = IF holds THEN semaphore + 1 ELSE semaphore
        /\ results' = IF direct THEN [results EXCEPT ![url] = price] ELSE results
        /\ UNCHANGED <<idVars, mrVars, xVars, op, mode, urls, used, phase, identity, browsers>>

\* fetch_one_standard, one task per ordinary URL.
StdAcquire(k) ==
    /\ op = "fetch_prices_batch" /\ phase = "standard"
    /\ k \in Positions /\ ~is_amazon_url(urls[k])
    /\ Acquire(k)

StdBegin(k) ==
    /\ op = "fetch_prices_batch" /\ phase = "standard"
    /\ k \in Positions /\ pc[k] = "jitter"
    /\ BeginStandard(k, TRUE, FALSE)

StdComplete(k, oc) ==
    /\ op = "fetch_prices_batch" /\ phase = "standard"
    /\ k \in Positions
    /\ CompleteStandard(k, oc, TRUE, FALSE)

\* await asyncio.gather(...): every task has returned; results[url] = price
\* in the order of the list.
Gather ==
    /\ op = "fetch_prices_batch" /\ phase = "standard"
    /\ \A k \in Positions : ~is_amazon_url(urls[k]) => pc[k] = "done"
    /\ results' =
          [u \in Urls |->
              LET ks == {k \in Positions : urls[k] = u /\ ~is_amazon_url(u)}
              IN  IF ks = {} THEN results[u]
                  ELSE taskPrice[CHOOSE k \in ks : \A j \in ks : j <= k]]
    /\ phase' = "amazon"
    /\ UNCHANGED <<idVars, cache, mrVars, xVars, op, mode, urls, pc, outcome, used, taskPrice,
                   logRows, semaphore, identity, browsers>>

\* The loops of lines 132-136 and 142-146.
DgCompleteDropped(k, oc) == DegradedTurn(k) /\ CompleteStandard(k, oc, TRUE, FALSE)
DgAcquire(k) == DegradedTurn(k) /\ Acquire(k)
DgBegin(k) == DegradedTurn(k) /\ pc[k] = "jitter" /\ BeginStandard(k, TRUE, TRUE)
DgComplete(k, oc) == DegradedTurn(k) /\ CompleteStandard(k, oc, TRUE, TRUE)

\* _fetch_price_async, line 305.
SaBegin(k) == SingleStandardTurn(k) /\ pc[k] = "pending" /\ BeginStandard(k, FALSE, TRUE)
SaComplete(k, oc) == SingleStandardTurn(k) /\ CompleteStandard(k, oc, FALSE, TRUE)

\* ---------------------------------------------------- the stealth route
\* identity = manager.get_healthy_identity(); without one the URL is skipped.
AzSelect(k) ==
    /\ StealthTurn(k)
    /\ pc[k] = "pending"
    /\ \E r \in get_healthy_identity :
          IF r = None
          THEN /\ pc' = [pc EXCEPT ![k] = "done"]
               /\ outcome' = [outcome EXCEPT ![k] = "no_identity"]
               /\ taskPrice' = [taskPrice EXCEPT ![k] = "None"]
               /\ results' = [results EXCEPT ![urls[k]] = "None"]
               /\ UNCHANGED <<identity, used>>
          ELSE /\ pc' = [pc EXCEPT ![k] = "selected"]
               /\ identity' = r
               /\ used' = [used EXCEPT ![k] = r]
               /\ UNCHANGED <<outcome, taskPrice, results>>
    /\ UNCHANGED <<idVars, cache, mrVars, xVars, op, mode, urls, logRows, semaphore, phase,
                   browsers>>

\* try: ... except Exception: logger.error("Global async batch failure")
\* around the body of fetch_prices_batch, followed by return results.
batch_catches_nothing == FALSE
batch_catches == TRUE

\* manager.get_healthy_identity() raises (the store cannot be reached).  In
\* fetch_prices_batch the exception ends the loop and is caught at the end
\* of the function; _fetch_price_async and _fetch_amazon_price let it pass.
AzSelectRaises(k) ==
    /\ StealthTurn(k)
    /\ pc[k] = "pending"
    /\ pc' = [pc EXCEPT ![k] = "done"]
    /\ outcome' = [outcome EXCEPT ![k] = "selection_raised"]
    /\ phase' = IF op = "fetch_prices_batch" /\ batch_catches THEN "returned" ELSE "raised"
    /\ UNCHANGED <<idVars, cache, mrVars, xVars, op, mode, urls, used, taskPrice, logRows,
                   results, semaphore, identity, browsers>>

\* How stealth_fetch_amazon can end.  Before a browser exists: the import of
\* playwright or the launch raises, or playwright_stealth is missing.  With
\* the browser open: a price, a page without a price, a page answered with
\* status 429 or 503 and without a price, a CAPTCHA page, a failed
\* navigation, or any other exception inside the try.
LaunchFailures == {"launch_raised", "stealth_missing"}
RenderOutcomes == {"success", "no_price", "rate_limited", "captcha",
                   "navigation_failed", "exception"}

\* result.failure_type as stealth_fetch_amazon sets it ("" on success and
\* when the call raised instead of returning).
FailureType(oc) ==
    CASE oc \in {"success", "launch_raised"} -> ""
      [] oc = "captcha" -> "CAPTCHA"
      [] oc \in {"no_price", "rate_limited"} -> "NO_PRICE_FOUND"
      [] OTHER -> "NETWORK_ERROR"

\* Lines 187-188 and 286-287: mark_burned for this failure type only.
BurnsOnAnyFailure(failure_type) == failure_type # ""
BurnsIdentity(failure_type) == failure_type = "CAPTCHA"

\* error_type of the row written by _fetch_amazon_stealth.
StealthError(oc) ==
    CASE oc = "success" -> ""
      [] oc = "launch_raised" -> "exception"
      [] FailureType(oc) = "CAPTCHA" -> "CAPTCHA"
      [] FailureType(oc) = "RATE_LIMITED" -> "RATE_LIMITED"
      [] OTHER -> "AmazonFailureType." \o FailureType(oc)

\* Cookies are saved after the CAPTCHA check and the price extraction.
SavesCookies(oc) == oc \in {"success", "no_price", "rate_limited"}

\* The return of stealth_fetch_amazon and what its caller does with it:
\* _fetch_amazon_stealth (lines 180-219) or _fetch_amazon_price (281-296).
StealthReturn(k, oc) ==
    LET url == urls[k]
        cks == IF SavesCookies(oc) THEN saved_cookies(identity) ELSE cookies
        price == IF oc = "success" THEN "price" ELSE "None"
        legacy == op = "_fetch_amazon_price" /\ oc = "launch_raised"
    IN  /\ outcome' = [outcome EXCEPT ![k] = oc]
        /\ IF oc = "success"
           THEN mark_success_on(cks, identity) /\ UNCHANGED <<burned, burnedAt>>
           ELSE /\ IF BurnsIdentity(FailureType(oc))
                   THEN mark_burned(identity)
                   ELSE UNCHANGED <<burned, burnedAt>>
                /\ cookies' = cks
                /\ rotated' = NoRotation
                /\ UNCHANGED requests
        /\ IF legacy
           THEN /\ pc' = [pc EXCEPT ![k] = "legacy"]
                /\ UNCHANGED <<taskPrice, results>>
           ELSE /\ pc' = [pc EXCEPT ![k] = "done"]
                /\ taskPrice' = [taskPrice EXCEPT ![k] = price]
                /\ results' = [results EXCEPT ![url] = price]
        /\ logRows' = IF op = "_fetch_amazon_price" THEN logRows
                      ELSE [logRows EXCEPT ![k] = log_extraction_attempt(@,
                              [success |-> oc = "success", method |-> "async_stealth",
                               error |-> StealthError(oc)])]
        /\ identity' = None
        /\ UNCHANGED <<now, returned, cache, mrVars, xVars, op, mode, urls, used, semaphore, phase>>

\* browser = await p.chromium.launch(headless=True)
AzLaunch(k) ==
    /\ StealthTurn(k)
    /\ pc[k] = "selected"
    /\ pc' = [pc EXCEPT ![k] = "rendering"]
    /\ browsers' = browsers + 1
    /\ UNCHANGED <<idVars, cache, mrVars, xVars, op, mode, urls, outcome, used, taskPrice,
                   logRows, results, semaphore, phase, identity>>

AzLaunchFails(k, oc) ==
    /\ StealthTurn(k)
    /\ pc[k] = "selected"
    /\ oc \in LaunchFailures
    /\ StealthReturn(k, oc)
    /\ UNCHANGED browsers

\* The same without the finally: the browser is closed on the paths that
\* reach the end of the try only.
AzFinish_without_finally(k, oc) ==
    /\ StealthTurn(k)
    /\ pc[k] = "rendering"
    /\ oc \in RenderOutcomes
    /\ browsers' = IF oc \in {"success", "no_price", "rate_limited"}
                   THEN browsers - 1 ELSE browsers
    /\ StealthReturn(k, oc)

\* The page is rendered; finally: await browser.close()
AzFinish(k, oc) ==
    /\ StealthTurn(k)
    /\ pc[k] = "rendering"
    /\ oc \in RenderOutcomes
    /\ browsers' = browsers - 1
    /\ StealthReturn(k, oc)

\* _fetch_amazon_price_legacy, reached without a manager or after an
\* unexpected error of the stealth call; it ends with a price or without.
SyLegacy(k, price) ==
    /\ op = "_fetch_amazon_price" /\ phase = "single"
    /\ k \in Positions
    /\ \/ pc[k] = "legacy"
       \/ pc[k] = "pending" /\ mode = "no_manager"
    /\ pc' = [pc EXCEPT ![k] = "done"]
    /\ outcome' = [outcome EXCEPT ![k] = IF @ = "" THEN "legacy" ELSE @]
    /\ used' = used
    /\ taskPrice' = [taskPrice EXCEPT ![k] = price]
    /\ results' = [results EXCEPT ![urls[k]] = price]
    /\ UNCHANGED <<idVars, cache, mrVars, xVars, op, mode, urls, logRows, semaphore, phase,
                   identity, browsers>>

\* return results / return price
Return ==
    /\ \/ /\ op = "fetch_prices_batch" /\ phase = "amazon"
          /\ \A k \in Positions : pc[k] = "done"
       \/ /\ phase = "single"
          /\ \A k \in Positions : pc[k] = "done"
    /\ phase' = "returned"
    /\ UNCHANGED <<idVars, cache, mrVars, xVars, op, mode, urls, pc, outcome, used, taskPrice,
                   logRows, results, semaphore, identity, browsers>>

InitIdle ==
    /\ op = "idle"
    /\ urls = <<>>
    /\ pc = <<>>
    /\ outcome = <<>>
    /\ used = <<>>
    /\ taskPrice = <<>>
    /\ logRows = <<>>
    /\ results = [u \in Urls |-> "absent"]
    /\ semaphore = 0
    /\ phase = "idle"
    /\ identity = None
    /\ browsers = 0

Init ==
    InitStore /\ InitCache /\ InitRequest /\ InitIdle /\ InitExtra /\ mode = "stealth"

\* The entry points start on a store in which any number of identities was
\* burned a moment ago (the first n of them: the code treats the profiles
\* alike), with at most one page (one that shows a price) in the cache, in any mode.
PreCachedUrls == {1, NumOther + 1}

InitEntry ==
    /\ now = 0
    /\ requests = [id \in Identities |-> Absent]
    /\ cookies = [id \in Identities |-> Absent]
    /\ returned = NoCall
    /\ rotated = NoRotation
    /\ \E B \in {1..n : n \in 0..NumIdentities} :
          /\ burned = [id \in Identities |->
                          IF id \in B
                          THEN [val |-> burn_until(0), exp |-> BURN_DURATION_HOURS]
                          ELSE Absent]
          /\ burnedAt = [id \in Identities |-> IF id \in B THEN 0 ELSE -1]
    /\ \E u \in PreCachedUrls \cup {0} :
          cache = [x \in Urls |->
                      IF x = u THEN [val |-> "priced", exp |-> CACHE_TTL]
                      ELSE CacheAbsent]
    /\ InitRequest
    /\ InitIdle
    /\ InitExtra
    /\ mode \in Modes

\* ------------------------------------------- the cache and its backend
\* The backend (Redis, or the in-process SimpleCache) stops or resumes
\* answering.
StoreFlip ==
    /\ storeDown' = ~storeDown
    /\ UNCHANGED <<idVars, cache, mrVars, bVars, frac, putAt, lastGet, restC>>

\* 1/TicksPerHour hour passes; at the full hour the keys of the identity
\* store expire as well.
CacheTick ==
    /\ CacheTime < MaxCacheTicks
    /\ IF frac + 1 < TicksPerHour
       THEN /\ frac' = frac + 1
            /\ UNCHANGED idVars
       ELSE /\ frac' = 0
            /\ now' = now + 1
            /\ requests' = Expire(requests, now + 1)
            /\ burned' = Expire(burned, now + 1)
            /\ cookies' = Expire(cookies, now + 1)
            /\ returned' = NoCall
            /\ rotated' = NoRotation
            /\ UNCHANGED burnedAt
    /\ UNCHANGED <<cache, mrVars, bVars, storeDown, putAt, lastGet, restC>>

\* A direct call cache_response(url, content).
CachePut(url, content) ==
    /\ cache' = cache_response(url, content)
    /\ putAt' = IF cache' = cache /\ (content = "" \/ storeDown) THEN putAt
                ELSE [putAt EXCEPT ![url] = [body |-> content, at |-> CacheTime]]
    /\ lastGet' = NoGet
    /\ UNCHANGED <<idVars, mrVars, bVars, storeDown, frac, restC>>

\* A direct call get_cached_response(url).
CacheGet(url) ==
    /\ lastGet' = [url |-> url, text |-> get_cached_response(url),
                   at |-> CacheTime, down |-> storeDown]
    /\ UNCHANGED <<idVars, cache, mrVars, bVars, storeDown, frac, putAt, restC>>

\* The caller of _fetch_price_async is back and may call again.
Again ==
    /\ phase = "returned"
    /\ op' = "idle"
    /\ urls' = <<>>
    /\ pc' = <<>>
    /\ outcome' = <<>>
    /\ used' = <<>>
    /\ taskPrice' = <<>>
    /\ logRows' = <<>>
    /\ results' = [u \in Urls |-> "absent"]
    /\ semaphore' = 0
    /\ phase' = "idle"
    /\ UNCHANGED <<idVars, cache, mrVars, xVars, mode, identity, browsers>>

\* ------------------------------------------------ update_stale_prices
\* urls = list(url_to_items.keys()): the links in the order of the items.
RECURSIVE LinksOf(_, _)
LinksOf(table, ids) ==
    IF ids = <<>> THEN <<>>
    ELSE LET rest == LinksOf(table, Tail(ids))
             link == table[Head(ids)].link
         IN  <<link>> \o SelectSeq(rest, LAMBDA u : u # link)

ItemIds == <<1, 2>>

\* The scheduler looks every ScheduleTickHours hours, up to MaxScheduleHours.
ScheduleTickHours == 80
MaxScheduleHours == 250

\* timedelta(days=7), in hours.
STALE_HOURS == 168

\* datetime.datetime.now(): the naive local time of the server.
local_now == now + utcOffset

\* get_items_needing_update: the filter of the query.  Link 0 stands for
\* None and for '', price_updated_at -1 for NULL.
needs_update(item, cutoff_date, force_all) ==
    /\ item.link # 0
    /\ \/ force_all
       \/ item.price_updated_at = -1
       \/ item.price_updated_at < cutoff_date

get_items_needing_update(cutoff_date, force_all) ==
    SelectSeq(ItemIds, LAMBDA i : needs_update(items[i], cutoff_date, force_all))

Selected == {uspSelected[n] : n \in DOMAIN uspSelected}

\* The loop over every URL of the batch instead of the keys of the map.
RECURSIVE ProcessingOrder_all_urls(_)
ProcessingOrder_all_urls(us) ==
    IF us = <<>> THEN <<>>
    ELSE SelectSeq(uspSelected, LAMBDA i : items[i].link = Head(us))
         \o ProcessingOrder_all_urls(Tail(us))

\* for url, new_price in results.items(): for item in items_for_url
RECURSIVE ProcessingOrder(_)
ProcessingOrder(us) ==
    IF us = <<>> THEN <<>>
    ELSE (IF results[Head(us)] = "absent" THEN <<>>
          ELSE SelectSeq(uspSelected, LAMBDA i : items[i].link = Head(us)))
         \o ProcessingOrder(Tail(us))

\* The price fetch_prices_batch reports for the URL.
new_price(url) == IF results[url] = "price" THEN Cents(shown[url]) ELSE NonePrice

\* Lines 1073-1075: a drop of at least 10 percent of a previous price that is
\* neither None nor 0.
is_drop_any(old_price, new) ==
    /\ ~old_price.null /\ old_price.cents # 0
    /\ new < old_price.cents

is_drop(old_price, new) ==
    /\ ~old_price.null /\ old_price.cents # 0
    /\ new < old_price.cents
    /\ (old_price.cents - new) * 100 >= 10 * old_price.cents

\* _create_price_drop_notifications: one row for the owner, one for the
\* user who claimed the item.
notifies_claimer_always(item) ==
    item.last_updated_by_id # NoUser /\ item.last_updated_by_id # item.user_id

notifies_claimer(item) ==
    /\ item.last_updated_by_id # NoUser
    /\ item.last_updated_by_id # item.user_id
    /\ item.status \in {"Claimed", "Purchased"}

create_price_drop_notifications(i, item) ==
    <<[user_id |-> item.user_id, item |-> i, link |-> "/items"]>>
    \o (IF notifies_claimer(item)
         THEN <<[user_id |-> item.last_updated_by_id, item |-> i, link |-> "/my-claims"]>>
         ELSE <<>>)

\* update_stale_prices up to results = asyncio.run(fetch_prices_batch(urls)),
\* or up to return stats when nothing is due.
UspStart(force_all) ==
    /\ uspPc = "idle"
    /\ refresh.pc = "idle"
    /\ LET seven_days_ago == local_now - STALE_HOURS
           selected == get_items_needing_update(seven_days_ago, force_all)
       IN  /\ uspSelected' = selected
           /\ IF selected = <<>>
              THEN /\ uspPc' = "done"
                   /\ UNCHANGED bVars
              ELSE /\ begin("fetch_prices_batch", LinksOf(items, selected))
                   /\ uspPc' = "fetching"
    /\ uspForced' = force_all
    /\ stats' = ZeroStats
    /\ items0' = items
    /\ UNCHANGED <<idVars, cache, mrVars, cVars, fVars, pVars, eVars, rVars, wVars, hVars, items,
                   shown, notifications, uspQueue, utcOffset, unpricedAt, refresh>>

\* asyncio.run returns the result map.
UspResults ==
    /\ uspPc = "fetching"
    /\ IF phase = "raised"
       THEN \* except Exception: rollback, stats['errors'] += len(items)
            /\ stats' = [stats EXCEPT !.errors = @ + Len(uspSelected)]
            /\ uspPc' = "done"
            /\ UNCHANGED uspQueue
       ELSE /\ phase = "returned"
            /\ uspQueue' = ProcessingOrder(urls)
            /\ uspPc' = "processing"
            /\ UNCHANGED stats
    /\ UNCHANGED <<idVars, cache, mrVars, bVars, cVars, fVars, pVars, zVars, hVars, items, items0, shown,
                   notifications>>

\* Lines 1059-1082: one item of the loop.
UspProcess ==
    /\ uspPc = "processing"
    /\ uspQueue # <<>>
    /\ LET i == Head(uspQueue)
           item == items[i]
           new == new_price(item.link)
           old_price == item.price
           changed == old_price # new
           drop == changed /\ is_drop(old_price, new.cents)
       IN  /\ uspQueue' = Tail(uspQueue)
           /\ IF new.null
              THEN /\ items' = [items EXCEPT ![i].price_updated_at = now]
                   /\ stats' = [stats EXCEPT !.items_processed = @ + 1]
                   /\ unpricedAt' = [unpricedAt EXCEPT ![i] = now]
                   /\ UNCHANGED <<hVars, notifications>>
              ELSE /\ items' = [items EXCEPT ![i].price = new,
                                             ![i].price_updated_at = now]
                   /\ record_price_history(i, new)
                   /\ stats' = [stats EXCEPT
                                  !.items_processed = @ + 1,
                                  !.prices_updated = IF changed THEN @ + 1 ELSE @,
                                  !.price_drops = IF drop THEN @ + 1 ELSE @]
                   /\ notifications' =
                         IF drop
                         THEN notifications \o create_price_drop_notifications(i, item)
                         ELSE notifications
                   /\ UNCHANGED unpricedAt
    /\ UNCHANGED <<idVars, cache, mrVars, bVars, cVars, fVars, pVars, eVars, rVars, wVars, items0,
                   shown, uspPc, uspSelected, uspForced, utcOffset, refresh>>

\* Lines 1084-1103: the commit, the URLs missing from the result map, and
\* return stats.
UspFinish ==
    /\ uspPc = "processing"
    /\ uspQueue = <<>>
    /\ LET failed_urls == {urls[k] : k \in DOMAIN urls} \ {u \in Urls : results[u] # "absent"}
       IN  /\ items' = [i \in Items |->
                          IF i \in Selected /\ items[i].link \in failed_urls
                          THEN [items[i] EXCEPT !.price_updated_at = now]
                          ELSE items[i]]
           /\ stats' = [stats EXCEPT !.errors = @ + Cardinality(failed_urls)]
    /\ uspPc' = "done"
    /\ UNCHANGED <<idVars, cache, mrVars, bVars, cVars, fVars, pVars, zVars, hVars, items0, shown,
                   notifications, uspQueue>>

\* update_stale_prices has returned; the scheduler may call it again.
UspAgain ==
    /\ uspPc = "done"
    /\ uspPc' = "idle"
    /\ op' = "idle"
    /\ urls' = <<>>
    /\ pc' = <<>>
    /\ outcome' = <<>>
    /\ used' = <<>>
    /\ taskPrice' = <<>>
    /\ logRows' = <<>>
    /\ results' = [u \in Urls |-> "absent"]
    /\ semaphore' = 0
    /\ phase' = "idle"
    /\ UNCHANGED <<idVars, cache, mrVars, cVars, hVars, fVars, pVars, zVars, items, items0, shown,
                   notifications, stats, uspQueue, mode, identity, browsers>>

\* refresh_item_price up to new_price = fetch_price(item.link), which
\* returns a price, returns None or raises.
RefreshOutcomes == {"price", "None", "raise"}

RefreshFetch(i, oc) ==
    /\ uspPc = "idle"
    /\ refresh.pc = "idle"
    /\ items[i].link # 0
    /\ refresh' = [pc |-> "fetched", item |-> i, new |-> oc]
    /\ UNCHANGED <<idVars, cache, mrVars, bVars, cVars, hVars, uVars, fVars, pVars, eVars, rVars,
                   wVars, uspSelected, uspForced, utcOffset, unpricedAt>>

\* Lines 1173-1200: the rest of refresh_item_price.
RefreshCommit ==
    /\ refresh.pc = "fetched"
    /\ LET i == refresh.item
           new_cents == Cents(shown[items[i].link])
       IN  CASE refresh.new = "price" ->
                  /\ items' = [items EXCEPT ![i].price = new_cents,
                                            ![i].price_updated_at = local_now]
                  /\ record_price_history(i, new_cents)
                  /\ UNCHANGED unpricedAt
             [] refresh.new = "None" ->
                  /\ items' = [items EXCEPT ![i].price_updated_at = local_now]
                  /\ unpricedAt' = [unpricedAt EXCEPT ![i] = now]
                  /\ UNCHANGED hVars
             [] refresh.new = "raise" ->
                  UNCHANGED <<items, unpricedAt, hVars>>
    /\ refresh' = NoRefresh
    /\ UNCHANGED <<idVars, cache, mrVars, bVars, cVars, fVars, pVars, eVars, rVars, wVars, items0,
                   shown, notifications, stats, uspPc, uspQueue, uspSelected, uspForced,
                   utcOffset>>

\* Time passes between two runs.
ScheduleTick ==
    /\ uspPc = "idle"
    /\ refresh.pc = "idle"
    /\ now + ScheduleTickHours <= MaxScheduleHours
    /\ now' = now + ScheduleTickHours
    /\ requests' = Expire(requests, now + ScheduleTickHours)
    /\ burned' = Expire(burned, now + ScheduleTickHours)
    /\ cookies' = Expire(cookies, now + ScheduleTickHours)
    /\ returned' = NoCall
    /\ rotated' = NoRotation
    /\ UNCHANGED <<burnedAt, cache, mrVars, xVars, bVars>>

\* The zones the server may run in: west of UTC, UTC, east of UTC.
LocalOffsets == {-12, 0, 12}

\* An item with a link and one without, never updated, on a server in any
\* zone.
InitSchedule ==
    /\ InitStore /\ InitCache /\ InitRequest /\ InitIdle /\ mode = "stealth"
    /\ storeDown = FALSE /\ frac = 0
    /\ putAt = [u \in Urls |-> NoPut] /\ lastGet = NoGet
    /\ history = [i \in Items |-> <<>>] /\ rph = NoRecordCall
    /\ items = [i \in Items |->
                  [link |-> IF i = 1 THEN 1 ELSE 0, price |-> Cents(1000), user_id |-> i,
                   last_updated_by_id |-> NoUser, status |-> "Available",
                   price_updated_at |-> -1]]
    /\ items0 = items
    /\ shown = [u \in Urls |-> 900]
    /\ InitUsp
    /\ dbDown = FALSE
    /\ InitNoParse
    /\ InitSelection
    /\ utcOffset \in LocalOffsets
    /\ soup = [meta |-> <<>>, json_ld |-> <<>>, microdata |-> <<>>, css |-> <<>>]
    /\ extracted = NotCalled
    /\ rphPc = [w \in {1, 2} |-> "idle"]
    /\ rphSeen = [w \in {1, 2} |-> [item |-> 0, cents |-> 0, points |-> <<>>]]
    /\ fbPc = "idle"
    /\ fbMarkup = [source |-> "none", text |-> ""]

\* The tables update_stale_prices starts on: item 1 with any previous price,
\* any last editor and status, item 2 claimed by user 1 and linked to the
\* same page or another one; each page shows one of the prices.
OldPrices == {NonePrice, Cents(0), Cents(1000)}
ShownPrices == {900, 901, 1100}

InitUpdate ==
    /\ InitStore /\ InitCache /\ InitRequest /\ InitIdle /\ mode = "stealth"
    /\ storeDown = FALSE /\ frac = 0
    /\ putAt = [u \in Urls |-> NoPut] /\ lastGet = NoGet
    /\ history = [i \in Items |-> <<>>] /\ rph = NoRecordCall
    /\ \E old \in OldPrices, by \in Users \cup {NoUser}, st \in Statuses, l2 \in {1, 2} :
          items = [i \in Items |->
                     IF i = 1
                     THEN [link |-> 1, price |-> old, user_id |-> 1,
                           last_updated_by_id |-> by, status |-> st,
                           price_updated_at |-> -1]
                     ELSE [link |-> l2, price |-> Cents(1000), user_id |-> 2,
                           last_updated_by_id |-> 1, status |-> "Purchased",
                           price_updated_at |-> -1]]
    /\ items0 = items
    /\ \E p1, p2 \in ShownPrices :
          shown = [u \in Urls |-> IF u = 1 THEN p1 ELSE IF u = 2 THEN p2 ELSE 0]
    /\ InitUsp
    /\ dbDown = FALSE
    /\ InitNoParse
    /\ InitRest

\* The database of the extraction log stops or resumes taking writes.
DbFlip ==
    /\ dbDown' = ~dbDown
    /\ UNCHANGED <<idVars, cache, mrVars, bVars, cVars, hVars, uVars, pVars, zVars>>

\* update_stale_prices over an ordinary and an Amazon page, in any mode.
InitFault ==
    /\ InitStore /\ InitCache /\ InitRequest /\ InitIdle /\ mode \in Modes
    /\ storeDown = FALSE /\ frac = 0
    /\ putAt = [u \in Urls |-> NoPut] /\ lastGet = NoGet
    /\ history = [i \in Items |-> <<>>] /\ rph = NoRecordCall
    /\ items = [i \in Items |->
                  [link |-> IF i = 1 THEN 1 ELSE NumOther + 1, price |-> Cents(1000),
                   user_id |-> i, last_updated_by_id |-> NoUser,
                   status |-> "Available", price_updated_at |-> -1]]
    /\ items0 = items
    /\ shown = [u \in Urls |-> 900]
    /\ InitUsp
    /\ dbDown = FALSE
    /\ InitNoParse
    /\ InitRest

\* ---------------------------------------------------- specifications
\* The store driven through the manager's interface, the usage counters
\* capped at MaxUses.
NextIdentity ==
    \/ GetHealthyIdentity
    \/ \E id \in Identities : get_request_count(id) < MaxUses /\ MarkSuccess(id)
    \/ \E id \in Identities : MarkBurned(id)
    \/ Tick(TickHours)

SpecIdentity == Init /\ [][NextIdentity]_vars

\* Rotation: uncapped counters, the clock advancing a key lifetime at a time.
NextRotation ==
    \/ \E id \in Identities : MarkSuccess(id)
    \/ \E id \in Identities : SaveCookies(id)
    \/ Tick(KEY_TTL_HOURS)

SpecRotation == Init /\ [][NextRotation]_vars

\* _make_request called again and again, every GET free in its outcome.
NextRequest ==
    \/ \E url \in RequestUrls : MrCall(url)
    \/ MrCacheLookup
    \/ \E got \in GetOutcomes, jitter \in 0..(Resolution - 1) :
          MrAttempt(got, jitter)

SpecRequest == Init /\ [][NextRequest]_vars

\* One entry point per behaviour: the mixed batch, or one of the single-URL
\* callers.
NextEntry ==
    \/ StartBatch
    \/ \E url \in {1, NumOther + 1} : StartFetchPriceAsync(url)
    \/ StartFetchAmazonPrice(NumOther + 1)
    \/ \E k \in Positions : StdAcquire(k)
    \/ \E k \in Positions : StdBegin(k)
    \/ \E k \in Positions, oc \in StandardOutcomes : StdComplete(k, oc)
    \/ Gather
    \/ \E k \in Positions : DgAcquire(k)
    \/ \E k \in Positions : DgBegin(k)
    \/ \E k \in Positions, oc \in StandardOutcomes : DgComplete(k, oc)
    \/ \E k \in Positions : SaBegin(k)
    \/ \E k \in Positions, oc \in StandardOutcomes : SaComplete(k, oc)
    \/ \E k \in Positions : AzSelect(k)
    \/ \E k \in Positions : AzLaunch(k)
    \/ \E k \in Positions, oc \in LaunchFailures : AzLaunchFails(k, oc)
    \/ \E k \in Positions, oc \in RenderOutcomes : AzFinish(k, oc)
    \/ \E k \in Positions, price \in {"price", "None"} : SyLegacy(k, price)
    \/ Return

SpecEntry == InitEntry /\ [][NextEntry]_vars

\* The batch of one engine instance while other instances, sharing the
\* identity store, burn identities through their own manager.
NextShared ==
    \/ StartBatch
    \/ \E k \in Positions : StdAcquire(k)
    \/ \E k \in Positions : StdBegin(k)
    \/ \E k \in Positions, oc \in StandardOutcomes : StdComplete(k, oc)
    \/ Gather
    \/ \E k \in Positions : AzSelect(k)
    \/ \E k \in Positions : AzLaunch(k)
    \/ \E k \in Positions, oc \in LaunchFailures : AzLaunchFails(k, oc)
    \/ \E k \in Positions, oc \in RenderOutcomes : AzFinish(k, oc)
    \/ Return
    \/ \E id \in Identities : MarkBurned(id)

SpecShared == Init /\ [][NextShared]_vars

\* The pool of ordinary fetches: more URLs than the semaphore admits, each
\* answered with a page or an HTTP error.
PoolOutcomes == {"priced", "http_error"}

NextPool ==
    \/ StartPool
    \/ \E k \in Positions : StdAcquire(k)
    \/ \E k \in Positions : StdBegin(k)
    \/ \E k \in Positions, oc \in PoolOutcomes : StdComplete(k, oc)
    \/ Gather
    \/ Return

SpecPool == Init /\ [][NextPool]_vars

\* _make_request and _fetch_price_async_standard called again and again for
\* one URL while time passes and the cache backend fails and recovers.
CacheGetOutcomes == {"RequestException", "priced", "unpriced"}
CacheStandardOutcomes == {"http_error", "priced", "unpriced"}

NextCache ==
    \/ MrCall(1)
    \/ MrCacheLookup
    \/ \E got \in CacheGetOutcomes : MrAttempt(got, 0)
    \/ StartFetchPriceAsync(1)
    \/ \E k \in Positions : SaBegin(k)
    \/ \E k \in Positions, oc \in CacheStandardOutcomes : SaComplete(k, oc)
    \/ Return
    \/ Again
    \/ StoreFlip
    \/ CacheTick

SpecCache == Init /\ [][NextCache]_vars

\* The two functions of price_cache called directly.
NextTtl ==
    \/ \E url \in 1..NumCacheUrls, content \in Bodies \cup {""} : CachePut(url, content)
    \/ \E url \in 1..NumCacheUrls : CacheGet(url)
    \/ StoreFlip
    \/ CacheTick

SpecTtl == Init /\ [][NextTtl]_vars

\* record_price_history called with any price for any item as the hours
\* pass.
NextHistory ==
    \/ \E item \in Items, price \in HistoryPrices : RecordPriceHistory(item, price)
    \/ HistoryTick

SpecHistory == Init /\ [][NextHistory]_vars

\* A site extractor with a Playwright fallback, called again and again,
\* while the cache backend goes down and comes back.
NextFallback ==
    \/ \E url \in RequestUrls : FbStart(url)
    \/ MrCacheLookup
    \/ \E got \in GetOutcomes : MrAttempt(got, 0)
    \/ FbReturn
    \/ FbFromCache
    \/ \E content \in Bodies \cup {""} : FbRender(content)
    \/ StoreFlip

SpecFallback == Init /\ [][NextFallback]_vars

\* record_price_history called by two workers at a time.
NextRace ==
    \/ \E w \in Workers, item \in Items, price \in HistoryPrices : RphQuery(w, item, price)
    \/ \E w \in Workers : RphCommit(w)
    \/ HistoryTick

SpecRace == Init /\ [][NextRace]_vars

\* One run of update_stale_prices over ordinary URLs, each answered with a
\* page that shows a price, a page without one or an HTTP error.
NextUpdate ==
    \/ UspStart(FALSE)
    \/ \E k \in Positions : StdAcquire(k)
    \/ \E k \in Positions : StdBegin(k)
    \/ \E k \in Positions, oc \in CacheStandardOutcomes : StdComplete(k, oc)
    \/ Gather
    \/ Return
    \/ UspResults
    \/ UspProcess
    \/ UspFinish

SpecUpdate == InitUpdate /\ [][NextUpdate]_vars

\* update_stale_prices with everything that can fail failing: fetches,
\* pages without a price, the identity store at the selection, the browser,
\* the database of the extraction log.
NextFault ==
    \/ UspStart(FALSE)
    \/ \E k \in Positions : StdAcquire(k)
    \/ \E k \in Positions : StdBegin(k)
    \/ \E k \in Positions, oc \in StandardOutcomes : StdComplete(k, oc)
    \/ Gather
    \/ \E k \in Positions : DgAcquire(k)
    \/ \E k \in Positions : DgBegin(k)
    \/ \E k \in Positions, oc \in StandardOutcomes : DgComplete(k, oc)
    \/ \E k \in Positions : AzSelect(k)
    \/ \E k \in Positions : AzSelectRaises(k)
    \/ \E k \in Positions : AzLaunch(k)
    \/ \E k \in Positions, oc \in LaunchFailures : AzLaunchFails(k, oc)
    \/ \E k \in Positions, oc \in RenderOutcomes : AzFinish(k, oc)
    \/ Return
    \/ UspResults
    \/ UspProcess
    \/ UspFinish
    \/ DbFlip

SpecFault == InitFault /\ [][NextFault]_vars

\* _parse_price called with one argument after another.
InitParse ==
    /\ InitStore /\ InitCache /\ InitRequest /\ InitIdle /\ mode = "stealth"
    /\ storeDown = FALSE /\ frac = 0
    /\ putAt = [u \in Urls |-> NoPut] /\ lastGet = NoGet
    /\ history = [i \in Items |-> <<>>] /\ rph = NoRecordCall
    /\ items = [i \in Items |-> PlainItem(i)]
    /\ items0 = items
    /\ shown = [u \in Urls |-> 0]
    /\ InitUsp
    /\ dbDown = FALSE
    /\ price_text \in PriceInputs
    /\ parsed = NotCalled
    /\ InitRest

NextParse == ParsePrice \/ ParseNext

SpecParse == InitParse /\ [][NextParse]_vars

\* The scheduler calls update_stale_prices again and again, forced or not,
\* users refresh single items in between, and hours pass.
NextSchedule ==
    \/ \E force_all \in BOOLEAN : UspStart(force_all)
    \/ \E k \in Positions : StdAcquire(k)
    \/ \E k \in Positions : StdBegin(k)
    \/ \E k \in Positions, oc \in CacheStandardOutcomes : StdComplete(k, oc)
    \/ Gather
    \/ Return
    \/ UspResults
    \/ UspProcess
    \/ UspFinish
    \/ UspAgain
    \/ \E i \in Items, oc \in RefreshOutcomes : RefreshFetch(i, oc)
    \/ RefreshCommit
    \/ ScheduleTick

SpecSchedule == InitSchedule /\ [][NextSchedule]_vars

\* _extract_generic_price_from_soup called once, with any page.
InitExtract ==
    /\ InitStore /\ InitCache /\ InitRequest /\ InitIdle /\ mode = "stealth"
    /\ storeDown = FALSE /\ frac = 0
    /\ putAt = [u \in Urls |-> NoPut] /\ lastGet = NoGet
    /\ history = [i \in Items |-> <<>>] /\ rph = NoRecordCall
    /\ items = [i \in Items |-> PlainItem(i)]
    /\ items0 = items
    /\ shown = [u \in Urls |-> 0]
    /\ InitUsp
    /\ dbDown = FALSE
    /\ InitNoParse
    /\ InitSelection
    /\ utcOffset = 0
    /\ soup \in Soups
    /\ extracted = NotCalled
    /\ rphPc = [w \in {1, 2} |-> "idle"]
    /\ rphSeen = [w \in {1, 2} |-> [item |-> 0, cents |-> 0, points |-> <<>>]]
    /\ fbPc = "idle"
    /\ fbMarkup = [source |-> "none", text |-> ""]

NextExtract == ExtractGeneric

SpecExtract == InitExtract /\ [][NextExtract]_vars

\* ------------------------------------------------------------ claims
BurnedInFuture(id) == burned[id].val > now

\* C1: get_healthy_identity never returns an identity whose burned-until
\* timestamp is still in the future, whatever its usage count.
C1_NeverReturnsBurned ==
    /\ returned \in Identities => ~BurnedInFuture(returned)
    /\ \A id \in Identities : BurnedInFuture(id) => id \notin get_healthy_identity

\* A burned identity with the strictly lowest usage count was passed over.
C1_Witness ==
    /\ returned \in Identities
    /\ \E id \in Identities :
          /\ BurnedInFuture(id)
          /\ requests[id].val < requests[returned].val

\* C2: after mark_burned(id) at time t, get_healthy_identity does not return
\* id before t + 24 hours, and once t + 24 hours has passed id is selectable
\* again, i.e. it is no longer filtered out as burned.
C2_BurnedFor24Hours ==
    \A id \in Identities :
        burnedAt[id] >= 0 =>
            IF now < burnedAt[id] + 24
            THEN id \notin get_healthy_identity /\ returned # id
            ELSE id \in Healthy

\* One identity is back after its 24 hours and was just returned, while
\* another one, burned later, is still excluded.
C2_Witness ==
    \E id, other \in Identities :
        /\ burnedAt[id] >= 0
        /\ now >= burnedAt[id] + 24
        /\ returned = id
        /\ burnedAt[other] >= 0
        /\ now < burnedAt[other] + 24

\* C5: a rotation (counter reset to zero together with deletion of the saved
\* cookies) happens only when the incremented count is at least 10, and no
\* counter is ever left at 20 or more by mark_success.
C5_RotationWindow ==
    /\ rotated.id # None =>
          /\ rotated.count >= 10
          /\ requests[rotated.id] = Absent
          /\ cookies[rotated.id] = Absent
    /\ \A id \in Identities : requests[id].val < 20

\* A counter got as far as 20 and was rotated there, while the cookies of
\* another identity that was used 10 times or more are still saved.
C5_Witness ==
    /\ rotated.id # None
    /\ rotated.count = 20
    /\ \E id \in Identities : requests[id].val >= 10 /\ cookies[id].val = 1

AllFailed == \A k \in 1..Len(mrGets) : mrGets[k] = "RequestException"

\* C9: when the cache misses and every HTTP attempt fails, _make_request
\* issues exactly 1 + MAX_RETRIES (= 3) GETs and then returns None.
C9_ExhaustedRetriesReturnNone ==
    (mrPc = "done" /\ Len(mrGets) > 0 /\ AllFailed) =>
        /\ Len(mrGets) = 3
        /\ Len(mrGets) = 1 + MAX_RETRIES
        /\ mrResult.kind = "None"

C9_Witness ==
    /\ mrPc = "done"
    /\ Len(mrGets) = 3
    /\ AllFailed
    /\ mrResult.kind = "None"

\* C10: when the first two attempts fail and the third succeeds,
\* _make_request returns the third response, has slept exactly once before
\* each retry and not after the last attempt, and the second sleep is
\* strictly longer than the first; each sleep is (attempt+1)*2 s plus a
\* jitter in [0, 1).
C10_BackoffThenSuccess ==
    /\ (mrPc = "done" /\ Len(mrGets) = 3
          /\ mrGets[1] = "RequestException" /\ mrGets[2] = "RequestException"
          /\ mrGets[3] \in Bodies \cup {""}) =>
        /\ mrResult = [kind |-> "Response", text |-> mrGets[3], get |-> 3]
        /\ Len(mrSleeps) = 2
        /\ mrSleeps[2] > mrSleeps[1]
    /\ mrPc = "done" /\ Len(mrGets) > 0 => Len(mrSleeps) = Len(mrGets) - 1
    /\ mrPc = "get" => Len(mrSleeps) = Len(mrGets)
    /\ \A k \in 1..Len(mrSleeps) :
          /\ mrSleeps[k] >= k * 2 * Resolution
          /\ mrSleeps[k] < (k * 2 + 1) * Resolution

\* The first jitter is the largest and the second the smallest one.
C10_Witness ==
    /\ mrPc = "done"
    /\ Len(mrGets) = 3
    /\ mrGets[3] = "priced"
    /\ mrResult.get = 3
    /\ Len(mrSleeps) = 2
    /\ mrSleeps[1] = 3 * Resolution - 1
    /\ mrSleeps[2] = 4 * Resolution

AllBurned == \A id \in Identities : BurnedInFuture(id)

\* C3: when every identity is burned, get_healthy_identity returns None and
\* the caller (the stealth loop of fetch_prices_batch, _fetch_price_async,
\* _fetch_amazon_price) gives the URL no price, launches no browser and
\* calls neither the ordinary nor the legacy fetcher.
C3_AllBurnedSkips ==
    /\ [](AllBurned => get_healthy_identity = {None})
    /\ [][\A k \in Positions :
            (AllBurned /\ StealthTurn(k) /\ pc[k] = "pending") =>
                /\ pc'[k] = "done"
                /\ results'[urls[k]] = "None"
                /\ taskPrice'[k] = "None"
                /\ used'[k] = None
                /\ browsers' = browsers
                /\ logRows' = logRows
                /\ UNCHANGED <<cache, requests, burned, cookies>>]_vars

\* In a finished batch the first Amazon URL met a CAPTCHA, which burned the
\* last healthy identity, and the next one was skipped.
C3_Witness ==
    /\ op = "fetch_prices_batch"
    /\ phase = "returned"
    /\ AllBurned
    /\ \E j, k \in Positions :
          /\ j < k
          /\ outcome[j] = "captcha"
          /\ outcome[k] = "no_identity"
          /\ results[urls[k]] = "None"

\* C4: a stealth attempt burns the identity it used if and only if its
\* outcome is a CAPTCHA; every other outcome leaves the burn state of every
\* identity as it was.
C4_OnlyCaptchaBurns ==
    [][\A k \in Positions :
          (k \in DOMAIN outcome' /\ used[k] # None /\ outcome[k] = ""
              /\ outcome'[k] # "") =>
              IF outcome'[k] = "captcha"
              THEN /\ burned'[used[k]].val > now
                   /\ \A id \in Identities \ {used[k]} : burned'[id] = burned[id]
              ELSE burned' = burned]_vars

\* One attempt met a CAPTCHA and its identity is burned; another one was
\* rate limited with a different identity, which is not.
C4_Witness ==
    \E j, k \in Positions :
        /\ outcome[j] = "captcha"
        /\ BurnedInFuture(used[j])
        /\ outcome[k] = "rate_limited"
        /\ used[k] # used[j]
        /\ ~BurnedInFuture(used[k])

\* C6: every URL fetch_prices_batch attempts, on whichever path, has exactly
\* one extraction-log row once the attempt is over.
C6_OneRowPerAttempt ==
    \A k \in Positions :
        (op = "fetch_prices_batch" /\ pc[k] = "done" /\ outcome[k] # "no_identity")
            => Len(logRows[k]) = 1

InFlight == {k \in Positions : pc[k] \in {"jitter", "fetching"}}

\* C7: at no moment are more than MAX_CONCURRENT_REQUESTS (5) ordinary
\* fetches in flight.
C7_AtMostFiveInFlight ==
    /\ Cardinality(InFlight) <= 5
    /\ Cardinality(InFlight) <= MAX_CONCURRENT_REQUESTS

\* Five fetches are in flight and a sixth task waits for the semaphore.
C7_Witness ==
    /\ Cardinality(InFlight) = 5
    /\ \E k \in Positions : pc[k] = "pending"
    /\ \E k \in Positions : pc[k] = "fetching"

Rendering == {k \in Positions : pc[k] = "rendering"}

\* C8: at most one headless browser is open at any moment; the attempt for
\* the next Amazon URL starts only after the browser of the previous one
\* has been closed.
C8_OneBrowser ==
    /\ browsers <= 1
    /\ browsers = Cardinality(Rendering)
    /\ \A j, k \in Positions :
          (j < k /\ is_amazon_url(urls[j]) /\ pc[k] \in {"selected", "rendering"})
              => pc[j] = "done"

\* The browser of the second Amazon URL is open after the first attempt
\* rendered its page and closed its own.
C8_Witness ==
    /\ op = "fetch_prices_batch"
    /\ browsers = 1
    /\ \E j, k \in Positions :
          /\ j < k
          /\ outcome[j] \in RenderOutcomes
          /\ pc[j] = "done"
          /\ pc[k] = "rendering"

\* C11: _make_request and _fetch_price_async_standard send a request for a
\* URL exactly when the cache lookup gives no body; a cache backend that
\* fails on the lookup counts as a miss, one that fails on the write-back is
\* ignored, and the fetched result is returned as it came.
C11_FetchIffCacheMiss ==
    [][/\ (mrPc = "start" /\ mrPc' # "start") =>
            LET miss == storeDown \/ cache_get(mrUrl) = ""
            IN  /\ mrPc' = "get" <=> miss
                /\ mrPc' = "done" <=> ~miss
                /\ ~miss => mrResult' = [kind |-> "CachedResponse",
                                         text |-> cache_get(mrUrl), get |-> 0]
                /\ mrGets' = mrGets
       /\ Len(mrGets') > Len(mrGets) => mrPc = "get"
       /\ (mrPc = "get" /\ mrPc' = "done" /\ mrGets'[Len(mrGets')] \in Bodies) =>
            mrResult'.kind = "Response" /\ mrResult'.text = mrGets'[Len(mrGets')]
       /\ \A k \in Positions :
            /\ (op = "_fetch_price_async" /\ k \in DOMAIN pc' /\ pc[k] = "pending"
                  /\ pc'[k] # "pending") =>
                  LET miss == storeDown \/ cache_get(urls[k]) = ""
                  IN  /\ pc'[k] = "fetching" <=> miss
                      /\ ~miss => /\ pc'[k] = "done"
                                  /\ taskPrice'[k] = parse_content(cache_get(urls[k]))
            /\ (k \in DOMAIN pc' /\ pc[k] = "fetching" /\ pc'[k] = "done") =>
                  /\ taskPrice'[k] = parse_content(Text(outcome'[k]))
                  /\ results'[urls[k]] = taskPrice'[k]]_vars

\* With the backend down and an unexpired page in the cache, both fetchers
\* went to the network and returned what it answered, not the cached page.
C11_Witness ==
    /\ storeDown
    /\ cache_get(1) = "priced"
    /\ mrPc = "done" /\ mrUrl = 1
    /\ mrResult = [kind |-> "Response", text |-> "unpriced", get |-> 2]
    /\ op = "_fetch_price_async" /\ phase = "returned"
    /\ outcome = <<"unpriced">>
    /\ results[1] = "None"

\* C12: a body stored with cache_response is what get_cached_response
\* returns for that URL for one hour, and None is returned from then on.
C12_CacheRoundTrip ==
    (lastGet.url # 0 /\ ~lastGet.down /\ putAt[lastGet.url].at >= 0) =>
        LET put == putAt[lastGet.url]
        IN  IF lastGet.at < put.at + TicksPerHour
            THEN lastGet.text = put.body
            ELSE lastGet.text = ""

\* A page read back three quarters of an hour after it was stored.
C12_Witness ==
    /\ lastGet.url # 0
    /\ lastGet.text = "priced"
    /\ putAt[lastGet.url].at >= 0
    /\ lastGet.at = putAt[lastGet.url].at + TicksPerHour - 1

\* C13: record_price_history writes exactly one point and returns True if
\* and only if the price is not None and not negative and the item has no
\* point yet, or the price differs from the most recent point by more than
\* 0.01, or that point is more than 6 hours old; otherwise it returns False
\* and writes nothing.
C13_RecordRule ==
    rph.item # 0 =>
        LET b == rph.before
            recent == b[Len(b)]
            expected ==
                /\ ~rph.price.null
                /\ rph.price.cents >= 0
                /\ \/ b = <<>>
                   \/ rph.price.cents - recent.price > 1
                   \/ recent.price - rph.price.cents > 1
                   \/ rph.at - recent.at > 6
        IN  /\ rph.ret = expected
            /\ history[rph.item] =
                  IF expected
                  THEN Append(b, [price |-> rph.price.cents, at |-> rph.at])
                  ELSE b
            /\ \A k \in 1..(Len(b) - 1) : b[k].at <= b[k + 1].at

\* An unchanged price recorded again after more than six hours, while the
\* other item has a point that is more recent and one cent away.
C13_Witness ==
    /\ rph.item = 1
    /\ rph.ret
    /\ Len(rph.before) = 1
    /\ rph.before[1].price = rph.price.cents
    /\ rph.at - rph.before[1].at > 6
    /\ Len(history[2]) = 1
    /\ history[2][1].at > rph.before[1].at
    /\ history[2][1].price = rph.price.cents + 1

\* The price update_stale_prices got for the item, None if it got none.
Fetched(i) == new_price(items0[i].link)
Processed == {i \in Items : uspPc \in {"processing", "done"} /\ results[items0[i].link] # "absent"
                              /\ \A k \in 1..Len(uspQueue) : uspQueue[k] # i}

\* The fetched price is lower than the previous one by at least a tenth of
\* the previous one.
Qualifies(i) ==
    /\ ~Fetched(i).null
    /\ ~items0[i].price.null
    /\ Fetched(i).cents < items0[i].price.cents
    /\ 10 * (items0[i].price.cents - Fetched(i).cents) >= items0[i].price.cents

NotifiedFor(i) == {notifications[k].user_id : k \in {n \in 1..Len(notifications) : notifications[n].item = i}}
RowsFor(i) == Cardinality({n \in 1..Len(notifications) : notifications[n].item = i})

C15_OwnerAndLastEditor ==
    \A i \in Processed :
        Qualifies(i) =>
            NotifiedFor(i) = {items0[i].user_id} \cup
                ({items0[i].last_updated_by_id} \ {NoUser})

\* C15, amended: the recipients of a qualifying drop are the owner plus, if
\* that is another user and the item is Claimed or Purchased, whoever
\* changed the item last; nobody gets two notifications for one drop.
C15_OwnerAndClaimer ==
    \A i \in Processed :
        Qualifies(i) =>
            /\ NotifiedFor(i) = {items0[i].user_id} \cup
                  (IF items0[i].status \in {"Claimed", "Purchased"}
                   THEN {items0[i].last_updated_by_id} \ {NoUser}
                   ELSE {})
            /\ RowsFor(i) = Cardinality(NotifiedFor(i))

\* Item 1 was claimed by its owner: one notification; item 2 was bought by
\* another user: two.
C15_Witness ==
    /\ uspPc = "done"
    /\ Qualifies(1) /\ Qualifies(2)
    /\ items0[1].last_updated_by_id = items0[1].user_id
    /\ items0[1].status = "Claimed"
    /\ RowsFor(1) = 1
    /\ NotifiedFor(2) = {1, 2}
    /\ RowsFor(2) = 2

C17_DegradedNotDropped ==
    (op = "fetch_prices_batch" /\ mode # "stealth") =>
        /\ \A k \in Positions :
              is_amazon_url(urls[k]) =>
                  /\ used[k] = None
                  /\ pc[k] \in {"pending", "jitter", "fetching", "done"}
                  /\ pc[k] = "done" =>
                        /\ outcome[k] \in StandardOutcomes \cup {"cache_hit"}
                        /\ results[urls[k]] \in {"price", "None"}
        /\ browsers = 0
        /\ phase = "returned" =>
              \A k \in Positions : results[urls[k]] \in {"price", "None"}

\* A returned batch without a manager: one Amazon URL answered with an
\* HTTP error, the other with a page that shows a price.
C17_Witness ==
    /\ op = "fetch_prices_batch"
    /\ mode = "no_manager"
    /\ phase = "returned"
    /\ \E j, k \in Positions :
          /\ is_amazon_url(urls[j]) /\ is_amazon_url(urls[k])
          /\ outcome[j] = "http_error" /\ results[urls[j]] = "None"
          /\ outcome[k] = "priced" /\ results[urls[k]] = "price"

\* What Python's float() makes of a text that is a plain decimal literal,
\* with or without a minus sign.
HasValue(input) ==
    \/ input.kind = "number"
    \/ /\ input.text # <<>>
       /\ ~float(IF Head(input.text) = "-" THEN Tail(input.text) ELSE input.text).none
Negative(input) ==
    IF input.kind = "number" THEN input.n < 0
    ELSE Head(input.text) = "-" /\ float(Tail(input.text)).mant > 0
TooHigh(input) ==
    IF input.kind = "number" THEN input.n > MAX_PRICE
    ELSE Head(input.text) # "-" /\ insane(float(input.text))

\* C18: _parse_price returns None for every argument, number or text, whose
\* numeric value is negative or greater than 1,000,000.
C18_SanityRejects ==
    (parsed # NotCalled /\ HasValue(price_text)
        /\ (Negative(price_text) \/ TooHigh(price_text))) =>
        parsed = NoneFloat

\* The outcomes of an attempt whose page was loaded.
PageLoaded == {"success", "no_price", "rate_limited", "captcha"}

\* C19: every stealth attempt that loaded the page leaves the cookies of its
\* identity saved in the store when it returns, whatever the outcome
\* (unless the success rotated the identity, which deletes them again).
C19_CookiesSavedWhateverOutcome ==
    [][\A k \in Positions :
          (outcome'[k] # outcome[k] /\ outcome'[k] \in PageLoaded
              /\ rotated' = NoRotation) =>
              cookies'[used[k]] = [val |-> 1, exp |-> now + KEY_TTL_HOURS]]_vars

\* C20: what the caller is told, as it writes it to the extraction log: a
\* 429/503 page without CAPTCHA marker is RATE_LIMITED, a page with the
\* marker is CAPTCHA, any other page without a price NO_PRICE_FOUND.
C20_FailureTaxonomy ==
    \A k \in Positions :
        (pc[k] = "done" /\ logRows[k] # <<>>) =>
            /\ outcome[k] = "rate_limited" => logRows[k][1].error = "RATE_LIMITED"
            /\ outcome[k] = "captcha" => logRows[k][1].error = "CAPTCHA"
            /\ outcome[k] = "no_price" =>
                  logRows[k][1].error = "AmazonFailureType.NO_PRICE_FOUND"

\* C21: an identity returned by get_healthy_identity has a usage count at
\* most 2 above the lowest usage count of the identities that are not
\* burned at that moment.
C21_WithinTwoOfMinimum ==
    returned \in Identities =>
        \A id \in Identities :
            ~BurnedInFuture(id) => requests[returned].val <= requests[id].val + 2

\* The returned identity is not the least used one: its count is exactly 2
\* above that of another healthy identity.
C21_Witness ==
    /\ returned \in Identities
    /\ \E lo \in Identities :
          /\ ~BurnedInFuture(lo)
          /\ requests[returned].val = requests[lo].val + 2

\* C22: every price the generic extractor returns, from whichever strategy,
\* satisfies 0 < price < 100000.
C22_ExtractedInRange ==
    (extracted # NotCalled /\ ~extracted.none) =>
        (positive(extracted) /\ below_sane(extracted))

\* C23: every extraction-log row of a failed attempt carries an error kind,
\* also when the page was fetched and no strategy found a price.
C23_FailedRowsClassified ==
    \A k \in Positions :
        \A n \in 1..Len(logRows[k]) :
            ~logRows[k][n].success => logRows[k][n].error # ""

\* C24: under any interleaving of record_price_history calls for one item,
\* its history never has two consecutive points within one cent and within
\* six hours of each other.
C24_NoDuplicatePoints ==
    \A item \in Items :
        \A k \in 1..(Len(history[item]) - 1) :
            LET a == history[item][k]
                b == history[item][k + 1]
            IN  ~(Abs(b.price - a.price) <= 1 /\ b.at - a.at <= 6)

\* C25: with several instances on one identity store, no stealth attempt
\* launches its browser with an identity that is burned at that moment.
C25_NoLaunchWithBurned ==
    [][\A k \in Positions :
          (k \in DOMAIN pc /\ k \in DOMAIN pc' /\ pc[k] = "selected" /\ pc'[k] = "rendering") =>
              ~BurnedInFuture(used[k])]_vars

\* C26: the keys of the map fetch_prices_batch returns are the URLs it was
\* given: each has a price or None, also when the identity selection for
\* an Amazon URL failed.
C26_EveryUrlIsAKey ==
    (op = "fetch_prices_batch" /\ phase = "returned") =>
        /\ \A k \in Positions : results[urls[k]] \in {"price", "None"}
        /\ \A u \in Urls : results[u] # "absent" => \E k \in Positions : urls[k] = u

\* C27: when the extractor falls back to _fetch_with_playwright because the
\* plain-HTTP response had no price, the markup it gets comes from a fresh
\* render, never from the cached copy of that response.
C27_FallbackRendersAfresh ==
    (fbPc = "done" /\ fbMarkup.source # "none") =>
        fbMarkup.source = "render"

\* C28: when a fetch yields no price for an item, update_stale_prices and
\* refresh_item_price keep the item's price and set its price_updated_at to
\* the current time, and no later non-forced run of update_stale_prices
\* selects the item before 7 days have passed since then.
C28_UnpricedStampedAndLeftAlone ==
    [][/\ \A i \in Items :
            (\/ /\ uspPc = "processing" /\ uspQueue # <<>> /\ Head(uspQueue) = i
                /\ uspQueue' # uspQueue /\ results[items[i].link] = "None"
             \/ /\ refresh.pc = "fetched" /\ refresh.item = i /\ refresh.new = "None"
                /\ refresh'.pc = "idle")
            => /\ items'[i].price = items[i].price
               /\ items'[i].price_updated_at \in {now, local_now}
       /\ (uspPc = "idle" /\ uspPc' # "idle" /\ ~uspForced') =>
            \A n \in DOMAIN uspSelected' :
               LET at == unpricedAt[uspSelected'[n]]
               IN  at = -1 \/ now - at >= STALE_HOURS]_vars

\* The selected items whose URL is missing from the result map.
MissingItems == {i \in Selected : results[items[i].link] = "absent"}

\* C29: after a run of update_stale_prices, price_drops <= prices_updated <=
\* items_processed <= number of selected items, and unless the batch raised,
\* items_processed plus the number of selected items whose URL is missing
\* from the result map is the number of selected items.
C29_StatsAddUp ==
    uspPc = "done" =>
        /\ stats.price_drops <= stats.prices_updated
        /\ stats.prices_updated <= stats.items_processed
        /\ stats.items_processed <= Len(uspSelected)
        /\ phase # "raised" =>
               stats.items_processed + Cardinality(MissingItems) = Len(uspSelected)

\* A run that processed one item, with a price drop, and missed the other.
C29_Witness ==
    /\ uspPc = "done" /\ phase = "returned"
    /\ stats.price_drops = 1 /\ stats.items_processed = 1
    /\ Cardinality(MissingItems) = 1 /\ Len(uspSelected) = 2

\* C30: every browser stealth_fetch_amazon launched is closed when the call
\* returns, on every path: a price, no price, a CAPTCHA, a failed navigation,
\* an unexpected exception.
C30_BrowserClosedOnReturn ==
    /\ []((\A k \in Positions : pc[k] # "rendering") => browsers = 0)
    /\ [][\A k \in Positions :
            (k \in DOMAIN pc' /\ pc[k] = "rendering" /\ pc'[k] # "rendering") =>
                /\ outcome'[k] \in RenderOutcomes
                /\ browsers' = browsers - 1]_vars

\* A stealth attempt whose browser was open ended in an exception (or a
\* failed navigation, or a CAPTCHA) and no browser is left.
C30_Witness ==
    /\ browsers = 0
    /\ \E k \in Positions :
          /\ pc[k] = "done"
          /\ outcome[k] \in {"exception", "navigation_failed", "captcha"}

====
